---- MODULE Spec2Model ----
(***************************************************************************)
(* Query-serving pipeline of the offline RAG chatbot: the TCP request      *)
(* server (bot_server.py), the answer cache and ask_question               *)
(* (src/chatbot.py) and the response sanitizer.                            *)
(*                                                                         *)
(* Text is modelled as a sequence of one-character strings, so that        *)
(* strip(), lower(), split() and substring search are computed as the      *)
(* Python code computes them.                                              *)
(***************************************************************************)
EXTENDS Integers, Sequences, FiniteSets, TLC

(***************************************************************************)
(* Text primitives (Python str methods used by the code).                  *)
(***************************************************************************)
UpperCase == <<"A","B","C","D","E","F","G","H","I","J","K","L","M","N","O","P","Q","R","S","T","U","V","W","X","Y","Z">>

LowerCase == <<"a","b","c","d","e","f","g","h","i","j","k","l","m","n","o","p","q","r","s","t","u","v","w","x","y","z">>

\* str.lower() on one character
LowerChar(c) ==
  IF \E i \in 1..Len(UpperCase) : UpperCase[i] = c
  THEN LowerCase[CHOOSE i \in 1..Len(UpperCase) : UpperCase[i] = c]
  ELSE c

\* str.lower()
Lower(s) == [i \in 1..Len(s) |-> LowerChar(s[i])]

\* characters str.strip(), str.split() and the regex class \s treat as whitespace
IsSpace(c) == c \in {" ", "\n", "\t", "\r"}

\* a faulty strip() that removes nothing
StripNothing(s) == s

\* str.strip()
Strip(s) ==
  IF \A i \in 1..Len(s) : IsSpace(s[i])
  THEN << >>
  ELSE LET first == CHOOSE i \in 1..Len(s) :
                      /\ ~IsSpace(s[i])
                      /\ \A j \in 1..(i-1) : IsSpace(s[j])
           last  == CHOOSE i \in 1..Len(s) :
                      /\ ~IsSpace(s[i])
                      /\ \A j \in (i+1)..Len(s) : IsSpace(s[j])
       IN  SubSeq(s, first, last)

\* s[:n] (Python slice: clipped to the length)
Prefix(s, n) == SubSeq(s, 1, IF n < Len(s) THEN n ELSE Len(s))

\* sub occurs in s starting at (1-based) position i
OccursAt(s, sub, i) ==
  /\ i >= 1
  /\ i + Len(sub) - 1 <= Len(s)
  /\ \A j \in 1..Len(sub) : s[i + j - 1] = sub[j]

\* the Python test `sub in s`
Contains(s, sub) == \E i \in 1..(Len(s) + 1) : OccursAt(s, sub, i)

RECURSIVE Join(_, _)
\* sep.join(parts)
Join(sep, parts) ==
  IF parts = << >> THEN << >>
  ELSE IF Len(parts) = 1 THEN parts[1]
  ELSE parts[1] \o sep \o Join(sep, Tail(parts))

RECURSIVE SplitOn(_, _)
\* s.split(c) for a one-character separator: empty pieces are kept
SplitOn(s, c) ==
  IF \A i \in 1..Len(s) : s[i] # c
  THEN << s >>
  ELSE LET p == CHOOSE i \in 1..Len(s) : s[i] = c /\ \A j \in 1..(i-1) : s[j] # c
       IN  << SubSeq(s, 1, p - 1) >> \o SplitOn(SubSeq(s, p + 1, Len(s)), c)

RECURSIVE SplitWords(_)
\* s.split(): split on runs of whitespace, no empty pieces
SplitWords(s) ==
  LET t == Strip(s)
  IN  IF t = << >> THEN << >>
      ELSE IF \A i \in 1..Len(t) : ~IsSpace(t[i])
      THEN << t >>
      ELSE LET p == CHOOSE i \in 1..Len(t) : IsSpace(t[i]) /\ \A j \in 1..(i-1) : ~IsSpace(t[j])
           IN  << SubSeq(t, 1, p - 1) >> \o SplitWords(SubSeq(t, p + 1, Len(t)))

(***************************************************************************)
(* The fixed messages of the code.                                         *)
(***************************************************************************)
\* chatbot.py:126
NOT_INITIALIZED == <<"⚠"," ","C","h","a","t","b","o","t"," ","n","o","t"," ","i","n","i","t","i","a","l","i","z","e","d",".">>

\* chatbot.py:129
INVALID_QUESTION == <<"⚠"," ","P","l","e","a","s","e"," ","p","r","o","v","i","d","e"," ","a"," ","v","a","l","i","d"," ","q","u","e","s","t","i","o","n",".">>

\* chatbot.py:151 and 255: the fixed sentinel
NO_INFORMATION == <<"I"," ","d","o","n","'","t"," ","h","a","v","e"," ","t","h","a","t"," ","i","n","f","o","r","m","a","t","i","o","n"," ","i","n"," ","t","h","e"," ","p","r","o","v","i","d","e","d"," ","d","o","c","u","m","e","n","t","s",".">>

\* chatbot.py:168
GENERIC_ERROR == <<"I"," ","e","n","c","o","u","n","t","e","r","e","d"," ","a","n"," ","e","r","r","o","r"," ","p","r","o","c","e","s","s","i","n","g"," ","y","o","u","r"," ","r","e","q","u","e","s","t",".">>

\* bot_server.py:61
EMPTY_QUESTION == <<"E","m","p","t","y"," ","q","u","e","s","t","i","o","n"," ","r","e","c","e","i","v","e","d",".">>

\* bot_server.py:63
STILL_LOADING == <<"S","y","s","t","e","m"," ","i","s"," ","s","t","i","l","l"," ","l","o","a","d","i","n","g"," ","m","o","d","e","l","s","."," ","P","l","e","a","s","e"," ","w","a","i","t",".">>

\* bot_server.py:81
INTERNAL_ERROR_PREFIX == <<"I","n","t","e","r","n","a","l"," ","E","r","r","o","r",":"," ">>

(***************************************************************************)
(* Response sanitizer (src/chatbot.py): _clean_response,                   *)
(* _detect_repetition, _validate_context_response.                         *)
(***************************************************************************)
\* the literal that follows \n\s* in each entry of leak_patterns, in list order
leak_patterns ==
  << <<"Q","u","e","s","t","i","o","n",":">>,
     <<"C","o","n","t","e","x","t",":">>,
     <<"U","s","e","r",":">>,
     <<"A","s","s","i","s","t","a","n","t",":">>,
     <<"R","u","l","e","s",":">>,
     <<"A","n","s","w","e","r"," ","b","a","s","e","d">> >>

\* re.search(r'\n\s*<label>', s, re.IGNORECASE) matches starting at position i
LeakMatchAt(s, label, i) ==
  /\ i \in 1..Len(s)
  /\ s[i] = "\n"
  /\ \E j \in (i+1)..(Len(s)+1) :
        /\ \A k \in (i+1)..(j-1) : IsSpace(s[k])
        /\ OccursAt(Lower(s), Lower(label), j)

\* one iteration of the loop over leak_patterns: cut at the leftmost match
CleanOne(s, label) ==
  IF \E i \in 1..Len(s) : LeakMatchAt(s, label, i)
  THEN LET start == CHOOSE i \in 1..Len(s) :
                      /\ LeakMatchAt(s, label, i)
                      /\ \A j \in 1..(i-1) : ~LeakMatchAt(s, label, j)
       IN  Strip(SubSeq(s, 1, start - 1))
  ELSE s

RECURSIVE CleanLoop(_, _)
\* the for loop: each iteration rebinds response to the value it computed
CleanLoop(s, n) ==
  IF n > Len(leak_patterns) THEN s
  ELSE CHOOSE r \in { CleanLoop(cut, n + 1) : cut \in { CleanOne(s, leak_patterns[n]) } } : TRUE

_clean_response(response) == Strip(CleanLoop(Strip(response), 1))

\* shorter responses are exempt from repetition detection
MIN_REPETITION_LENGTH == 100

\* width of the sliding window of the phrase check
PHRASE_WIDTH == 5

\* a phrase counted more often than this is a repetition
PHRASE_THRESHOLD == 2

\* the phrase check needs more words than this
MIN_PHRASE_WORDS == 20

\* the sentence check needs more pieces than this
MIN_SENTENCES == 3

\* sentences[a:b] with 0-based Python bounds, 0 <= a <= b <= len
Slice(seq, a, b) == SubSeq(seq, a + 1, b)

RECURSIVE NonBlank(_)
\* [s.strip().lower() for s in pieces if s.strip()]
NonBlank(pieces) ==
  IF pieces = << >> THEN << >>
  ELSE IF Strip(Head(pieces)) = << >> THEN NonBlank(Tail(pieces))
  ELSE << Lower(Strip(Head(pieces))) >> \o NonBlank(Tail(pieces))

\* len(set(s.split()[:5]))
LeadingWordKinds(s) ==
  LET w == SplitWords(s)
      n == IF Len(w) < PHRASE_WIDTH THEN Len(w) ELSE PHRASE_WIDTH
  IN  Cardinality({ w[i] : i \in 1..n })

\* the sentence-level check: TRUE when the response is to be cut to its first half
SentenceRepetition(sentences) ==
  /\ Len(sentences) > MIN_SENTENCES
  /\ LET last_three == NonBlank(Slice(sentences, Len(sentences) - 4, Len(sentences) - 1))
     IN  /\ Len(last_three) = 3
         /\ \/ last_three[1] = last_three[2]
            \/ last_three[2] = last_three[3]
            \/ \A i \in 1..3 : LeadingWordKinds(last_three[i]) < 3

\* phrases[i] as its list of words, i 0-based: words[i:i+5]
PhraseAt(words, i) == SubSeq(words, i + 1, i + PHRASE_WIDTH)

\* phrase_counts[phrases[i]]
PhraseCount(words, i) ==
  Cardinality({ j \in 0..(Len(words) - PHRASE_WIDTH - 1) : PhraseAt(words, j) = PhraseAt(words, i) })

\* a faulty guard that exempts every response
ExemptAll(response) == TRUE

\* a faulty guard that exempts no response
ExemptNone(response) == FALSE

\* line 174: `not response or len(response) < 100`
Exempt(response) == response = << >> \/ Len(response) < MIN_REPETITION_LENGTH

_detect_repetition(response) ==
  IF Exempt(response) THEN response
  ELSE
    LET sentences == SplitOn(response, ".")
        words     == SplitWords(Lower(response))
        indexes   == 0..(Len(words) - PHRASE_WIDTH - 1)
    IN  IF SentenceRepetition(sentences)
        THEN Join(<<".", " ">>, Slice(sentences, 0, Len(sentences) \div 2)) \o <<".">>
        ELSE IF /\ Len(words) > MIN_PHRASE_WORDS
                /\ \E i \in indexes : PhraseCount(words, i) > PHRASE_THRESHOLD
        THEN LET first == CHOOSE i \in indexes :
                            /\ PhraseCount(words, i) > PHRASE_THRESHOLD
                            /\ \A j \in 0..(i-1) : PhraseCount(words, j) <= PHRASE_THRESHOLD
                 cut_point == first * PHRASE_WIDTH + PHRASE_WIDTH
             IN  Join(<<" ">>, Prefix(words, cut_point)) \o <<".">>
        ELSE response

\* generic_indicators, in list order
generic_indicators ==
  << <<"a","s"," ","a","n"," ","a","i">>,
     <<"i","'","m"," ","a","n"," ","a","i">>,
     <<"i"," ","c","a","n"," ","h","e","l","p"," ","y","o","u"," ","w","i","t","h">>,
     <<"h","e","r","e"," ","a","r","e"," ","s","o","m","e"," ","g","e","n","e","r","a","l">>,
     <<"t","y","p","i","c","a","l","l","y",",">>,
     <<"g","e","n","e","r","a","l","l","y"," ","s","p","e","a","k","i","n","g">>,
     <<"i","n"," ","g","e","n","e","r","a","l",",">>,
     <<"c","o","m","m","o","n","l","y",",">>,
     <<"i","t"," ","i","s"," ","w","i","d","e","l","y"," ","k","n","o","w","n">>,
     <<"b","a","s","e","d"," ","o","n"," ","m","y"," ","t","r","a","i","n","i","n","g">>,
     <<"f","r","o","m"," ","w","h","a","t"," ","i"," ","k","n","o","w">> >>

\* a faulty validation that compares without lower-casing the response
ValidateCaseSensitive(response) ==
  IF \E n \in 1..Len(generic_indicators) : Contains(response, generic_indicators[n])
  THEN NO_INFORMATION
  ELSE response

_validate_context_response(response) ==
  IF \E n \in 1..Len(generic_indicators) : Contains(Lower(response), generic_indicators[n])
  THEN NO_INFORMATION
  ELSE response

\* ask_question, lines 153-156: the three stages in their fixed order
\* (each stage's value is computed once and handed to the next)
Sanitize(raw) ==
  CHOOSE r \in { _validate_context_response(deduplicated) :
                   deduplicated \in { _detect_repetition(cleaned) :
                                       cleaned \in { _clean_response(raw) } } } : TRUE


(***************************************************************************)
(* Context assembly (src/chatbot.py): _format_docs.  A document is its     *)
(* page_content, a text.                                                   *)
(***************************************************************************)
\* a faulty placeholder: the empty string
NoText == << >>

\* line 79: what _format_docs returns for no documents
NO_DOCUMENTS ==
  <<"N","o"," ","r","e","l","e","v","a","n","t"," ","d","o","c","u","m","e","n","t","s"," ",
    "f","o","u","n","d",".">>

\* line 108: the text appended to a context that was cut
TRUNCATION_MARKER ==
  <<"\n","[",".",".","."," ","t","r","u","n","c","a","t","e","d"," ",".",".",".","]">>

\* line 88: how many leading characters of page_content make the fingerprint
\* (200 in the code; texts of the model are a few characters long)
FINGERPRINT_WIDTH == 3

\* line 96: the longest context that is not cut (12000 in the code)
MAX_CONTEXT_LENGTH == 12

\* a faulty deduplication that keeps every document
KeepAllDocs(docs, seen_content) == docs

RECURSIVE UniqueDocs(_, _)
\* lines 84-91: the loop that fills unique_docs, seen_content being the
\* fingerprints of the documents before docs
UniqueDocs(docs, seen_content) ==
  IF docs = << >> THEN << >>
  ELSE LET fingerprint == Strip(Prefix(Head(docs), FINGERPRINT_WIDTH))
       IN  IF fingerprint \notin seen_content
           THEN << Head(docs) >> \o UniqueDocs(Tail(docs), seen_content \cup { fingerprint })
           ELSE UniqueDocs(Tail(docs), seen_content)

\* lines 100-102: f"- {content}" with the whitespace of page_content normalised
FormattedDoc(page_content) ==
  <<"-", " ">> \o Join(<<" ">>, SplitWords(Strip(page_content)))

\* a faulty cut that appends no marker
CutWithoutMarker(formatted) == Prefix(formatted, MAX_CONTEXT_LENGTH)

\* lines 107-108: formatted[:MAX_CONTEXT_LENGTH] + "\n[... truncated ...]"
Cut(formatted) == Prefix(formatted, MAX_CONTEXT_LENGTH) \o TRUNCATION_MARKER

_format_docs(docs) ==
  IF docs = << >> THEN NO_DOCUMENTS
  ELSE LET unique_docs    == UniqueDocs(docs, { })
           formatted_docs == [i \in 1..Len(unique_docs) |-> FormattedDoc(unique_docs[i])]
           formatted      == Join(<<"\n", "\n">>, formatted_docs)
       IN  IF Len(formatted) > MAX_CONTEXT_LENGTH THEN Cut(formatted) ELSE formatted
(***************************************************************************)
(* Bounds of the model.                                                    *)
(***************************************************************************)
\* worker threads that can be alive at the same time (the code sets no cap)
NumWorkers == 2

\* src/config.py:55 sets 100; the model runs the cache with a small capacity
CACHE_SIZE == 2

\* src/config.py:54
ENABLE_QUERY_CACHE == TRUE

\* knowledge-base rebuilds the GUI specification runs
MaxRebuilds == 2

Workers == 1..NumWorkers

(***************************************************************************)
(* Inputs: request bytes, JSON values, generator outputs.                  *)
(***************************************************************************)
JsonString(s) == [t |-> "string", s |-> s, n |-> 0]

JsonNumber(n) == [t |-> "number", s |-> << >>, n |-> n]

JsonNull == [t |-> "null", s |-> << >>, n |-> 0]

\* question strings a client may send
QuestionStrings ==
  { <<"a">>, <<" ","A">>, <<"b">>, <<"c">>, <<" ">>, << >> }

\* values the "question" field of a request may hold
QuestionValues ==
  { JsonString(s) : s \in QuestionStrings } \cup { JsonNumber(7), JsonNumber(0), JsonNull }

\* what recv() delivers: nothing, bytes that are not UTF-8, or text that is
\* not JSON, a JSON document that is not an object, an object without the
\* field, an object with it
Requests ==
  { [bytes |-> "empty",        json |-> "none",    question |-> JsonNull],
    [bytes |-> "invalid_utf8", json |-> "none",    question |-> JsonNull],
    [bytes |-> "utf8",         json |-> "invalid", question |-> JsonNull],
    [bytes |-> "utf8",         json |-> "array",   question |-> JsonNull],
    [bytes |-> "utf8",         json |-> "object_without_question", question |-> JsonNull] }
  \cup { [bytes |-> "utf8", json |-> "object", question |-> v] : v \in QuestionValues }

\* texts chain.invoke may return
RawOutputs == { <<"p">>, <<" ","q","\n">>, <<" ">> }

(***************************************************************************)
(* Python semantics used by handle_client and ask_question.                *)
(***************************************************************************)
\* bool(v) of a decoded JSON value
Truthy(v) ==
  CASE v.t = "string" -> v.s # << >>
    [] v.t = "number" -> v.n # 0
    [] OTHER          -> FALSE

\* str(e) of AttributeError raised by query.strip() on an int
NO_STRIP_ATTRIBUTE == <<"'","i","n","t","'"," ","o","b","j","e","c","t"," ","h","a","s"," ","n","o"," ","a","t","t","r","i","b","u","t","e"," ","'","s","t","r","i","p","'">>

AttributeError == [type |-> "AttributeError", text |-> NO_STRIP_ATTRIBUTE]

\* KeyError(key): str(e) is repr(key)
KeyError(key) == [type |-> "KeyError", text |-> <<"'">> \o key \o <<"'">>]

\* popitem() on an empty OrderedDict
KeyErrorEmpty == [type |-> "KeyError", text |-> <<"'","d","i","c","t","i","o","n","a","r","y"," ","i","s"," ","e","m","p","t","y","'">>]

\* hashlib.md5(s.encode()).hexdigest(): a deterministic digest, taken as
\* collision-free; the digest of s is written "#" followed by s
Md5Hex(s) == <<"#">> \o s

\* a faulty normalization that keeps the letter case
NormalizeKeepingCase(query) == Strip(query)

\* ask_question, line 131
NormalizeQuery(query) == Lower(Strip(query))

\* ask_question, lines 131-132
Fingerprint(query) == Md5Hex(NormalizeQuery(query))

(***************************************************************************)
(* OrderedDict operations on _query_cache, a sequence of entries, oldest   *)
(* first.                                                                  *)
(***************************************************************************)
CacheKeys(cache) == { cache[i].key : i \in 1..Len(cache) }

\* a faulty lookup that returns the oldest entry whatever the key
CacheGetOldest(cache, key) == cache[1].value

\* cache[key]
CacheGet(cache, key) == cache[CHOOSE i \in 1..Len(cache) : cache[i].key = key].value

\* a faulty store that adds an entry whether or not the key is present
CacheSetAppending(cache, key, value) == Append(cache, [key |-> key, value |-> value])

\* cache[key] = value: a present key keeps its position, a new key goes last
CacheSet(cache, key, value) ==
  IF key \in CacheKeys(cache)
  THEN [i \in 1..Len(cache) |->
          IF cache[i].key = key THEN [key |-> key, value |-> value] ELSE cache[i]]
  ELSE Append(cache, [key |-> key, value |-> value])

\* cache.popitem(last=False) on a non-empty cache
CachePopFirst(cache) == Tail(cache)

(***************************************************************************)
(* State.                                                                  *)
(***************************************************************************)
VARIABLES
  main,          \* start_server: "loading", "listening" or "returned"
  rag_chain,     \* bot_server.rag_chain: "None" or "chain"
  is_ready,      \* bot_server.is_ready
  _query_cache,  \* chatbot._query_cache: entries [key, value], oldest first
  pc,            \* per worker: position in handle_client / ask_question
  request,       \* per worker: what recv() delivers on its connection
  question,      \* per worker: the decoded "question" value
  query_hash,    \* per worker: ask_question's query_hash
  future,        \* per worker: the future of executor.submit(chain.invoke, query)
  result,        \* per worker: ask_question's result
  response,      \* per worker: handle_client's response dict
  wire,          \* per worker: the messages written to the client socket
  socket,        \* per worker: "none", "open" or "closed"
  asked,         \* per worker: ask_question was called for this connection
  invoked,       \* per worker: chain.invoke was submitted for this connection
  outcome,       \* per worker: how ask_question ended
  recency,       \* history: keys of the cache by last access, least recent first
  prev,          \* history: the last ask_question call that has completed
  gui,           \* ServerSideRAGGUI (bot_server_gui.py): its flags, the
                 \* positions of its processing threads, the version of
                 \* vector_store and the version qa_chain was created on
  since_change,  \* history: the processing steps started and completed
                 \* since the documents changed last, and the steps that
                 \* were running when they changed
  call           \* the last call of a function of chatbot.py made on its
                 \* own: the function, its argument and the value returned

vars == << main, rag_chain, is_ready, _query_cache, pc, request, question,
           query_hash, future, result, response, wire, socket, asked, invoked,
           outcome, recency, prev, gui, since_change, call >>

\* the history variables are written by History only

serverVars == << main, rag_chain, is_ready >>

NoRequest == [bytes |-> "empty", json |-> "none", question |-> JsonNull]

NoFuture == [state |-> "none", value |-> << >>]

NoResponse == [status |-> "none", answer |-> << >>]

NoCall == [valid |-> FALSE, query |-> << >>, answer |-> << >>, outcome |-> "none"]

\* the processing steps of the GUI
Steps == { "chunking", "embeddings", "vectordb" }

\* ServerSideRAGGUI.__init__, lines 55-75, and the Ask button of line 351:
\* nothing is processing, nothing is chunked, there is no chain and the
\* button is disabled; version 0 stands for the knowledge base found at
\* start-up
NoGui ==
  [ is_processing |-> FALSE, chunking |-> "idle", embeddings |-> "idle", thread |-> "idle",
    text_chunks |-> FALSE, embeddings_ready |-> FALSE, session_steps_completed |-> { },
    ask_btn |-> "disabled", vector_store |-> 0, qa_chain |-> 0 ]

NoChange == [redone |-> { }, stale |-> { }]

NoApplication == [function |-> "none", argument |-> << >>, value |-> << >>]

Init ==
  /\ main = "loading"
  /\ rag_chain = "None"
  /\ is_ready = FALSE
  /\ _query_cache = << >>
  /\ pc = [w \in Workers |-> "idle"]
  /\ request = [w \in Workers |-> NoRequest]
  /\ question = [w \in Workers |-> JsonNull]
  /\ query_hash = [w \in Workers |-> << >>]
  /\ future = [w \in Workers |-> NoFuture]
  /\ result = [w \in Workers |-> << >>]
  /\ response = [w \in Workers |-> NoResponse]
  /\ wire = [w \in Workers |-> << >>]
  /\ socket = [w \in Workers |-> "none"]
  /\ asked = [w \in Workers |-> FALSE]
  /\ invoked = [w \in Workers |-> FALSE]
  /\ outcome = [w \in Workers |-> "none"]
  /\ recency = << >>
  /\ prev = NoCall
  /\ gui = NoGui
  /\ since_change = NoChange
  /\ call = NoApplication

(***************************************************************************)
(* start_server: load the models, then listen.                             *)
(***************************************************************************)
\* a faulty start that sets is_ready before the outcome of loading is known
LoadModelsReadyFirst(preloaded, vector_store, raised) ==
  /\ main = "loading"
  /\ is_ready' = TRUE
  /\ IF ~raised /\ preloaded /\ vector_store
     THEN /\ rag_chain' = "chain"
          /\ main' = "listening"
     ELSE /\ main' = "returned"
          /\ UNCHANGED rag_chain
  /\ UNCHANGED << _query_cache, pc, request, question, query_hash, future,
                  result, response, wire, socket, asked, invoked, outcome >>

\* lines 109-146: preload_models, load_vector_store, create_chatbot
LoadModels(preloaded, vector_store, raised) ==
  /\ main = "loading"
  /\ IF ~raised /\ preloaded /\ vector_store
     THEN /\ rag_chain' = "chain"
          /\ is_ready' = TRUE
          /\ main' = "listening"
     ELSE /\ main' = "returned"
          /\ UNCHANGED << rag_chain, is_ready >>
  /\ UNCHANGED << _query_cache, pc, request, question, query_hash, future,
                  result, response, wire, socket, asked, invoked, outcome >>

\* a thread slot no live worker occupies
Free(w) == pc[w] \in {"idle", "closed"}

\* a faulty server that accepts connections before the models are loaded
AcceptWhileLoading(w, req) ==
  /\ main # "returned"
  /\ Free(w)
  /\ \A v \in Workers : v < w => ~Free(v)
  /\ pc' = [pc EXCEPT ![w] = "accepted"]
  /\ request' = [request EXCEPT ![w] = req]
  /\ socket' = [socket EXCEPT ![w] = "open"]
  /\ UNCHANGED << serverVars, _query_cache, question, query_hash, future, result,
                  response, wire, asked, invoked, outcome >>

\* lines 161-169: accept a connection and start its worker thread
Accept(w, req) ==
  /\ main = "listening"
  /\ Free(w)
  /\ \A v \in Workers : v < w => ~Free(v)
  /\ pc' = [pc EXCEPT ![w] = "accepted"]
  /\ request' = [request EXCEPT ![w] = req]
  /\ socket' = [socket EXCEPT ![w] = "open"]
  /\ UNCHANGED << serverVars, _query_cache, question, query_hash, future, result,
                  response, wire, asked, invoked, outcome >>

\* handle_client(client_socket, client_address) called on a connection in
\* whatever state the module is in, also before start_server has loaded the
\* models (is_ready is False from line 23 on)
Handle(w, req) ==
  /\ Free(w)
  /\ \A v \in Workers : v < w => ~Free(v)
  /\ pc' = [pc EXCEPT ![w] = "accepted"]
  /\ request' = [request EXCEPT ![w] = req]
  /\ socket' = [socket EXCEPT ![w] = "open"]
  /\ UNCHANGED << serverVars, _query_cache, question, query_hash, future, result,
                  response, wire, asked, invoked, outcome >>

(***************************************************************************)
(* handle_client.                                                          *)
(***************************************************************************)
\* the request cannot be decoded into a question: recv(...).decode raises
\* UnicodeDecodeError, or request_json.get raises AttributeError (lines 46-53)
RaisesInParsing(req) ==
  \/ req.bytes = "invalid_utf8"
  \/ req.bytes = "utf8" /\ req.json = "array"

\* lines 51-55: the question handle_client extracts from decodable text
ParsedQuestion(req) ==
  IF req.json = "object" THEN req.question ELSE JsonString(<< >>)

ErrorResponse(text) == [status |-> "error", answer |-> text]

SuccessResponse(text) == [status |-> "success", answer |-> text]

\* a faulty handle_client that dispatches without testing is_ready
ReceiveWithoutReadyTest(w) ==
  /\ pc[w] = "accepted"
  /\ LET req == request[w]
     IN  IF req.bytes = "empty" \/ RaisesInParsing(req)
         THEN /\ pc' = [pc EXCEPT ![w] = "closing"]
              /\ UNCHANGED << question, response >>
         ELSE /\ question' = [question EXCEPT ![w] = ParsedQuestion(req)]
              /\ IF ~Truthy(ParsedQuestion(req))
                 THEN /\ response' = [response EXCEPT ![w] = ErrorResponse(EMPTY_QUESTION)]
                      /\ pc' = [pc EXCEPT ![w] = "responding"]
                 ELSE /\ pc' = [pc EXCEPT ![w] = "dispatching"]
                      /\ UNCHANGED response
  /\ UNCHANGED << serverVars, _query_cache, request, query_hash, future, result,
                  wire, socket, asked, invoked, outcome >>

\* lines 44-63: receive, decode, parse, reject or go on to dispatch
Receive(w) ==
  /\ pc[w] = "accepted"
  /\ LET req == request[w]
     IN  IF req.bytes = "empty" \/ RaisesInParsing(req)
         THEN /\ pc' = [pc EXCEPT ![w] = "closing"]
              /\ UNCHANGED << question, response >>
         ELSE /\ question' = [question EXCEPT ![w] = ParsedQuestion(req)]
              /\ IF ~Truthy(ParsedQuestion(req))
                 THEN /\ response' = [response EXCEPT ![w] = ErrorResponse(EMPTY_QUESTION)]
                      /\ pc' = [pc EXCEPT ![w] = "responding"]
                 ELSE IF ~is_ready
                 THEN /\ response' = [response EXCEPT ![w] = ErrorResponse(STILL_LOADING)]
                      /\ pc' = [pc EXCEPT ![w] = "responding"]
                 ELSE /\ pc' = [pc EXCEPT ![w] = "dispatching"]
                      /\ UNCHANGED response
  /\ UNCHANGED << serverVars, _query_cache, request, query_hash, future, result,
                  wire, socket, asked, invoked, outcome >>

\* ask_question returns text (its locals are gone): lines 70-77 build the
\* success response
Returns(w, text, how) ==
  /\ response' = [response EXCEPT ![w] = SuccessResponse(text)]
  /\ outcome' = [outcome EXCEPT ![w] = how]
  /\ pc' = [pc EXCEPT ![w] = "responding"]
  /\ query_hash' = [query_hash EXCEPT ![w] = << >>]
  /\ future' = [future EXCEPT ![w] = NoFuture]
  /\ result' = [result EXCEPT ![w] = << >>]

\* a faulty error path that keeps the response in a variable all workers share
RaisesForAll(w, e) ==
  /\ response' = [v \in Workers |-> ErrorResponse(INTERNAL_ERROR_PREFIX \o e.text)]
  /\ outcome' = [outcome EXCEPT ![w] = "raised"]
  /\ pc' = [pc EXCEPT ![w] = "responding"]
  /\ query_hash' = [query_hash EXCEPT ![w] = << >>]
  /\ future' = [future EXCEPT ![w] = NoFuture]
  /\ result' = [result EXCEPT ![w] = << >>]

\* ask_question raises e (its locals are gone): lines 79-81 build the error
\* response
Raises(w, e) ==
  /\ response' = [response EXCEPT ![w] = ErrorResponse(INTERNAL_ERROR_PREFIX \o e.text)]
  /\ outcome' = [outcome EXCEPT ![w] = "raised"]
  /\ pc' = [pc EXCEPT ![w] = "responding"]
  /\ query_hash' = [query_hash EXCEPT ![w] = << >>]
  /\ future' = [future EXCEPT ![w] = NoFuture]
  /\ result' = [result EXCEPT ![w] = << >>]

(***************************************************************************)
(* ask_question.                                                           *)
(***************************************************************************)
\* line 69 and ask_question lines 125-146: the checks, the fingerprint, the
\* membership test and, on a miss, the submission of chain.invoke
AskQuestion(w) ==
  /\ pc[w] = "dispatching"
  /\ asked' = [asked EXCEPT ![w] = TRUE]
  /\ LET query == question[w]
         hash  == Fingerprint(query.s)
     IN  IF rag_chain = "None"
         THEN /\ Returns(w, NOT_INITIALIZED, "not_initialized")
              /\ UNCHANGED invoked
         ELSE IF query.t # "string"
         THEN /\ Raises(w, AttributeError)
              /\ UNCHANGED invoked
         ELSE IF Strip(query.s) = << >>
         THEN /\ Returns(w, INVALID_QUESTION, "invalid")
              /\ UNCHANGED invoked
         ELSE /\ query_hash' = [query_hash EXCEPT ![w] = hash]
              /\ IF ENABLE_QUERY_CACHE /\ hash \in CacheKeys(_query_cache)
                 THEN /\ pc' = [pc EXCEPT ![w] = "cache_read"]
                      /\ UNCHANGED << future, invoked, result, response, outcome >>
                 ELSE /\ future' = [future EXCEPT ![w] = [state |-> "running", value |-> << >>]]
                      /\ invoked' = [invoked EXCEPT ![w] = TRUE]
                      /\ pc' = [pc EXCEPT ![w] = "waiting"]
                      /\ UNCHANGED << result, response, outcome >>
  /\ UNCHANGED << serverVars, _query_cache, request, question, wire, socket >>

\* a faulty hit that takes the entry out of the cache as it serves it
CacheReadRemoving(w) ==
  /\ pc[w] = "cache_read"
  /\ IF query_hash[w] \in CacheKeys(_query_cache)
     THEN /\ Returns(w, CacheGet(_query_cache, query_hash[w]), "hit")
          /\ _query_cache' = SelectSeq(_query_cache, LAMBDA entry : entry.key # query_hash[w])
     ELSE /\ Raises(w, KeyError(query_hash[w]))
          /\ UNCHANGED _query_cache
  /\ UNCHANGED << serverVars, request, question, wire, socket, asked, invoked >>

\* line 137: return _query_cache[query_hash]
CacheRead(w) ==
  /\ pc[w] = "cache_read"
  /\ IF query_hash[w] \in CacheKeys(_query_cache)
     THEN /\ Returns(w, CacheGet(_query_cache, query_hash[w]), "hit")
     ELSE /\ Raises(w, KeyError(query_hash[w]))
  /\ UNCHANGED << serverVars, _query_cache, request, question, wire, socket, asked,
                  invoked >>

\* chain.invoke returns raw in the executor's thread
ChainReturns(w, raw) ==
  /\ future[w].state = "running"
  /\ future' = [future EXCEPT ![w] = [state |-> "done", value |-> raw]]
  /\ UNCHANGED << serverVars, _query_cache, pc, request, question, query_hash, result,
                  response, wire, socket, asked, invoked, outcome >>

\* exception classes chain.invoke may raise: concurrent.futures.TimeoutError
\* (the builtin TimeoutError from Python 3.11 on) and any other Exception
ChainExceptions == { "TimeoutError", "Exception" }

\* chain.invoke raises e in the executor's thread (retrieval or generation
\* failed); the future keeps the exception for future.result to re-raise
ChainRaises(w, e) ==
  /\ future[w].state = "running"
  /\ future' = [future EXCEPT ![w] =
        [state |-> IF e = "TimeoutError" THEN "raised_timeout" ELSE "raised", value |-> << >>]]
  /\ UNCHANGED << serverVars, _query_cache, pc, request, question, query_hash, result,
                  response, wire, socket, asked, invoked, outcome >>

\* a faulty delivery that hands on the generator's text as it came
FutureResultUnsanitized(w) ==
  /\ pc[w] = "waiting"
  /\ future[w].state = "done"
  /\ LET text == future[w].value
     IN  IF ENABLE_QUERY_CACHE /\ text # << >>
         THEN /\ result' = [result EXCEPT ![w] = text]
              /\ future' = [future EXCEPT ![w] = NoFuture]
              /\ pc' = [pc EXCEPT ![w] = "cache_store"]
              /\ UNCHANGED << query_hash, response, outcome >>
         ELSE Returns(w, text, "answered")
  /\ UNCHANGED << serverVars, _query_cache, request, question, wire, socket, asked,
                  invoked >>

\* lines 148, 153-159: future.result delivers the text; it is sanitized and,
\* if it is not empty, goes on to be stored
FutureResult(w) ==
  /\ pc[w] = "waiting"
  /\ future[w].state = "done"
  /\ LET text == Sanitize(future[w].value)
     IN  IF ENABLE_QUERY_CACHE /\ text # << >>
         THEN /\ result' = [result EXCEPT ![w] = text]
              /\ future' = [future EXCEPT ![w] = NoFuture]
              /\ pc' = [pc EXCEPT ![w] = "cache_store"]
              /\ UNCHANGED << query_hash, response, outcome >>
         ELSE Returns(w, text, "answered")
  /\ UNCHANGED << serverVars, _query_cache, request, question, wire, socket, asked,
                  invoked >>

\* lines 148, 166-168: future.result re-raises the chain's exception, which
\* is not a TimeoutError
FutureException(w) ==
  /\ pc[w] = "waiting"
  /\ future[w].state = "raised"
  /\ Returns(w, GENERIC_ERROR, "error")
  /\ UNCHANGED << serverVars, _query_cache, request, question, wire, socket, asked,
                  invoked >>

\* lines 148-151: future.result raises concurrent.futures.TimeoutError, its
\* own because the timeout elapses first, or the one the chain has raised;
\* the return statement leaves the with block
FutureTimeout(w) ==
  /\ pc[w] = "waiting"
  /\ future[w].state \in {"running", "raised_timeout"}
  /\ pc' = [pc EXCEPT ![w] = "executor_exit"]
  /\ UNCHANGED << serverVars, _query_cache, request, question, query_hash, future,
                  result, response, wire, socket, asked, invoked, outcome >>

\* a faulty exit that hands on the result the abandoned call has produced
\* in the meantime
ExecutorExitKeepingResult(w) ==
  /\ pc[w] = "executor_exit"
  /\ future[w].state # "running"
  /\ IF future[w].state = "done"
     THEN Returns(w, Sanitize(future[w].value), "timeout")
     ELSE Returns(w, NO_INFORMATION, "timeout")
  /\ UNCHANGED << serverVars, _query_cache, request, question, wire, socket, asked,
                  invoked >>

\* line 145: ThreadPoolExecutor.__exit__ is shutdown(wait=True), which joins
\* the executor's thread; then line 151 returns
ExecutorExit(w) ==
  /\ pc[w] = "executor_exit"
  /\ future[w].state # "running"
  /\ Returns(w, NO_INFORMATION, "timeout")
  /\ UNCHANGED << serverVars, _query_cache, request, question, wire, socket, asked,
                  invoked >>

\* line 160: _query_cache[query_hash] = result
CacheStore(w) ==
  /\ pc[w] = "cache_store"
  /\ _query_cache' = CacheSet(_query_cache, query_hash[w], result[w])
  /\ pc' = [pc EXCEPT ![w] = "cache_len"]
  /\ UNCHANGED << serverVars, request, question, query_hash, future, result, response,
                  wire, socket, asked, invoked, outcome >>

\* line 161: if len(_query_cache) > CACHE_SIZE
CacheLen(w) ==
  /\ pc[w] = "cache_len"
  /\ IF Len(_query_cache) > CACHE_SIZE
     THEN /\ pc' = [pc EXCEPT ![w] = "cache_pop"]
          /\ UNCHANGED << query_hash, future, result, response, outcome >>
     ELSE Returns(w, result[w], "answered")
  /\ UNCHANGED << serverVars, _query_cache, request, question, wire, socket, asked,
                  invoked >>

\* line 162: _query_cache.popitem(last=False); KeyError on an empty cache is
\* caught at line 166
CachePop(w) ==
  /\ pc[w] = "cache_pop"
  /\ IF _query_cache = << >>
     THEN /\ Returns(w, GENERIC_ERROR, "error")
          /\ UNCHANGED _query_cache
     ELSE /\ Returns(w, result[w], "answered")
          /\ _query_cache' = CachePopFirst(_query_cache)
  /\ UNCHANGED << serverVars, request, question, wire, socket, asked, invoked >>

\* clear_query_cache, lines 265-271: _query_cache.clear(), from any thread
clear_query_cache ==
  /\ _query_cache # << >>
  /\ _query_cache' = << >>
  /\ UNCHANGED << serverVars, pc, request, question, query_hash, future, result,
                  response, wire, socket, asked, invoked, outcome >>

(***************************************************************************)
(* handle_client: respond and close.                                       *)
(***************************************************************************)
\* a faulty send that writes the response a second time
RespondTwice(w, delivered) ==
  /\ pc[w] = "responding"
  /\ wire' = [wire EXCEPT ![w] = IF delivered THEN @ \o << response[w], response[w] >> ELSE @]
  /\ pc' = [pc EXCEPT ![w] = "closing"]
  /\ request' = [request EXCEPT ![w] = NoRequest]
  /\ question' = [question EXCEPT ![w] = JsonNull]
  /\ response' = [response EXCEPT ![w] = NoResponse]
  /\ asked' = [asked EXCEPT ![w] = FALSE]
  /\ invoked' = [invoked EXCEPT ![w] = FALSE]
  /\ outcome' = [outcome EXCEPT ![w] = "none"]
  /\ UNCHANGED << serverVars, _query_cache, query_hash, future, result, socket >>

\* lines 84-85: json.dumps and sendall; delivered is FALSE when sendall
\* raises. Nothing reads the worker's locals after this step
Respond(w, delivered) ==
  /\ pc[w] = "responding"
  /\ wire' = [wire EXCEPT ![w] = IF delivered THEN Append(@, response[w]) ELSE @]
  /\ pc' = [pc EXCEPT ![w] = "closing"]
  /\ request' = [request EXCEPT ![w] = NoRequest]
  /\ question' = [question EXCEPT ![w] = JsonNull]
  /\ response' = [response EXCEPT ![w] = NoResponse]
  /\ asked' = [asked EXCEPT ![w] = FALSE]
  /\ invoked' = [invoked EXCEPT ![w] = FALSE]
  /\ outcome' = [outcome EXCEPT ![w] = "none"]
  /\ UNCHANGED << serverVars, _query_cache, query_hash, future, result, socket >>

\* a faulty end of handle_client that returns without closing the socket
CloseForgotten(w) ==
  /\ pc[w] = "closing"
  /\ pc' = [pc EXCEPT ![w] = "closed"]
  /\ request' = [request EXCEPT ![w] = NoRequest]
  /\ wire' = [wire EXCEPT ![w] = << >>]
  /\ UNCHANGED << serverVars, _query_cache, question, query_hash, future, result,
                  response, socket, asked, invoked, outcome >>

\* lines 89-91: finally: client_socket.close(); the worker thread ends and
\* the connection is gone
Close(w) ==
  /\ pc[w] = "closing"
  /\ socket' = [socket EXCEPT ![w] = "closed"]
  /\ pc' = [pc EXCEPT ![w] = "closed"]
  /\ request' = [request EXCEPT ![w] = NoRequest]
  /\ wire' = [wire EXCEPT ![w] = << >>]
  /\ UNCHANGED << serverVars, _query_cache, question, query_hash, future, result,
                  response, asked, invoked, outcome >>


(***************************************************************************)
(* ServerSideRAGGUI (bot_server_gui.py): the processing steps, the         *)
(* document changes and the chat. The GUI is a process of its own; its     *)
(* qa_chain is the chain it hands to ask_question, held in rag_chain, and  *)
(* its query thread is the first worker. Button and key callbacks and the  *)
(* callbacks queued with master.after run one at a time in the main        *)
(* thread; the steps of the processing threads interleave with them.       *)
(***************************************************************************)
\* what a chain created on version v of the vector store answers
KbAnswer(v) == [i \in 1..(v + 1) |-> "k"]

\* questions typed into the query entry
GuiQuestions == { <<"a">>, <<" ","A">>, <<"b">>, <<"c">> }

\* how a question is submitted: the Ask button (line 342) or the Return key
\* in the query entry (line 328)
AskPaths == { "button", "return" }

\* the variables of the server and of the workers that the GUI's processing
\* does not touch
rebuildFrame == << main, is_ready, pc, request, question, query_hash, future, result,
                  response, wire, socket, asked, invoked, outcome >>

\* _finish_step, lines 1002-1013, in the main thread
FinishStep(g, step) ==
  [g EXCEPT !.session_steps_completed = @ \cup { step }, !.is_processing = FALSE]

\* _do_chunking, lines 555-571: refused while is_processing, else
\* is_processing is set and the thread of _run_chunking is started
GuiDoChunking ==
  /\ ~gui.is_processing
  /\ gui.chunking = "idle"
  /\ gui' = [gui EXCEPT !.is_processing = TRUE, !.chunking = "started"]
  /\ UNCHANGED << rebuildFrame, rag_chain, _query_cache >>

\* _run_chunking, line 590: self.text_chunks = chunk_text(...)
GuiChunkText ==
  /\ gui.chunking = "started"
  /\ gui' = [gui EXCEPT !.text_chunks = TRUE, !.chunking = "chunked"]
  /\ UNCHANGED << rebuildFrame, rag_chain, _query_cache >>

\* _run_chunking, lines 600-603, and _finish_step
GuiChunkingComplete ==
  /\ gui.chunking = "chunked"
  /\ gui' = [FinishStep(gui, "chunking") EXCEPT !.chunking = "idle"]
  /\ UNCHANGED << rebuildFrame, rag_chain, _query_cache >>

\* _do_embeddings, lines 610-629
GuiDoEmbeddings ==
  /\ ~gui.is_processing
  /\ gui.text_chunks
  /\ gui.embeddings = "idle"
  /\ gui' = [gui EXCEPT !.is_processing = TRUE, !.embeddings = "started"]
  /\ UNCHANGED << rebuildFrame, rag_chain, _query_cache >>

\* _run_embeddings, line 639: self.embeddings_ready = True
GuiEmbeddingsReady ==
  /\ gui.embeddings = "started"
  /\ gui' = [gui EXCEPT !.embeddings_ready = TRUE, !.embeddings = "ready"]
  /\ UNCHANGED << rebuildFrame, rag_chain, _query_cache >>

\* _run_embeddings, lines 644-647, and _finish_step
GuiEmbeddingsComplete ==
  /\ gui.embeddings = "ready"
  /\ gui' = [FinishStep(gui, "embeddings") EXCEPT !.embeddings = "idle"]
  /\ UNCHANGED << rebuildFrame, rag_chain, _query_cache >>

\* _do_vector_db, lines 655-680: refused while is_processing, without
\* chunks and without embeddings, else is_processing is set and the thread
\* of _run_vectordb is started
GuiDoVectorDb ==
  /\ ~gui.is_processing
  /\ gui.text_chunks
  /\ gui.embeddings_ready
  /\ gui.thread = "idle"
  /\ gui.vector_store < MaxRebuilds
  /\ gui' = [gui EXCEPT !.is_processing = TRUE, !.thread = "started"]
  /\ UNCHANGED << rebuildFrame, rag_chain, _query_cache >>

\* _run_vectordb, lines 694-698: self.vector_store = create_vector_store(
\* self.text_chunks, ...), which is None for no chunks (vector_store.py:24)
GuiCreateVectorStore ==
  /\ gui.thread = "started"
  /\ gui' = IF gui.text_chunks
            THEN [gui EXCEPT !.vector_store = @ + 1, !.thread = "store_created"]
            ELSE [gui EXCEPT !.thread = "no_store"]
  /\ UNCHANGED << rebuildFrame, rag_chain, _query_cache >>

\* _run_vectordb, line 705: self.qa_chain = create_chatbot(...), which is
\* None without a vector store (chatbot.py:18-20)
GuiCreateChain ==
  /\ gui.thread \in {"store_created", "no_store"}
  /\ IF gui.thread = "store_created"
     THEN /\ gui' = [gui EXCEPT !.qa_chain = gui.vector_store, !.thread = "chain_created"]
          /\ rag_chain' = "chain"
     ELSE /\ gui' = [gui EXCEPT !.thread = "chain_created"]
          /\ rag_chain' = "None"
  /\ UNCHANGED << rebuildFrame, _query_cache >>

\* a faulty rebuild that leaves the cache as it is
GuiKeepCache ==
  /\ gui.thread = "chain_created"
  /\ gui' = [gui EXCEPT !.thread = "cleared"]
  /\ UNCHANGED << rebuildFrame, rag_chain, _query_cache >>

\* _run_vectordb, line 712: clear_query_cache()
GuiClearCache ==
  /\ gui.thread = "chain_created"
  /\ _query_cache' = << >>
  /\ gui' = [gui EXCEPT !.thread = "cleared"]
  /\ UNCHANGED << rebuildFrame, rag_chain >>

\* _run_vectordb, line 717, and _on_vectordb_complete, lines 901-920:
\* _finish_step, and the Ask button is enabled when all three steps are
\* recorded as completed
GuiVectordbComplete ==
  /\ gui.thread = "cleared"
  /\ LET g == FinishStep(gui, "vectordb")
     IN  gui' = [g EXCEPT !.thread = "idle",
                          !.ask_btn = IF g.session_steps_completed = Steps THEN "normal" ELSE @]
  /\ UNCHANGED << rebuildFrame, rag_chain, _query_cache >>

\* the except clauses of _run_chunking, _run_embeddings and _run_vectordb
\* (lines 605-608, 649-653, 719-722): the step raises. The callback queued
\* with master.after refers to the exception variable e, which is unbound
\* when the callback runs, so _fail_step is not reached and is_processing
\* stays set
GuiStepFails(step) ==
  /\ CASE step = "chunking"   -> gui.chunking = "started" /\ gui' = [gui EXCEPT !.chunking = "idle"]
       [] step = "embeddings" -> gui.embeddings = "started" /\ gui' = [gui EXCEPT !.embeddings = "idle"]
       [] OTHER               -> gui.thread \in {"started", "store_created"} /\ gui' = [gui EXCEPT !.thread = "idle"]
  /\ UNCHANGED << rebuildFrame, rag_chain, _query_cache >>

\* _upload_document and _delete_selected (lines 494-498, 542-546) after
\* documents were added or removed: _reset_processing_steps, lines 1024-1046
GuiResetProcessingSteps ==
  /\ gui' = [gui EXCEPT !.text_chunks = FALSE, !.embeddings_ready = FALSE,
                        !.session_steps_completed = { }, !.ask_btn = "disabled"]
  /\ rag_chain' = "None"
  /\ UNCHANGED << rebuildFrame, _query_cache >>

\* a faulty _ask_question that does not look at is_processing
GuiAskWhileProcessing(w, q, path) ==
  /\ path = "button" => gui.ask_btn = "normal"
  /\ Strip(q) # << >>
  /\ rag_chain # "None"
  /\ Free(w)
  /\ gui' = [gui EXCEPT !.is_processing = TRUE, !.ask_btn = "disabled"]
  /\ pc' = [pc EXCEPT ![w] = "dispatching"]
  /\ question' = [question EXCEPT ![w] = JsonString(Strip(q))]
  /\ UNCHANGED << serverVars, _query_cache, request, query_hash, future, result,
                  response, wire, socket, asked, invoked, outcome >>

\* _ask_question, lines 923-951, from the Ask button, which must be enabled,
\* or from the Return key: refused while is_processing, for a blank
\* question and without a chain; else the thread of _process_query starts
GuiAsk(w, q, path) ==
  /\ path = "button" => gui.ask_btn = "normal"
  /\ ~gui.is_processing
  /\ Strip(q) # << >>
  /\ rag_chain # "None"
  /\ Free(w)
  /\ gui' = [gui EXCEPT !.is_processing = TRUE, !.ask_btn = "disabled"]
  /\ pc' = [pc EXCEPT ![w] = "dispatching"]
  /\ question' = [question EXCEPT ![w] = JsonString(Strip(q))]
  /\ UNCHANGED << serverVars, _query_cache, request, query_hash, future, result,
                  response, wire, socket, asked, invoked, outcome >>

\* _process_query and _display_answer, lines 972-989: the answer is shown,
\* is_processing is reset and the Ask button enabled in the main thread
GuiDisplayAnswer(w) ==
  /\ pc[w] = "responding"
  /\ gui' = [gui EXCEPT !.is_processing = FALSE, !.ask_btn = "normal"]
  /\ pc' = [pc EXCEPT ![w] = "idle"]
  /\ question' = [question EXCEPT ![w] = JsonNull]
  /\ response' = [response EXCEPT ![w] = NoResponse]
  /\ asked' = [asked EXCEPT ![w] = FALSE]
  /\ invoked' = [invoked EXCEPT ![w] = FALSE]
  /\ outcome' = [outcome EXCEPT ![w] = "none"]
  /\ UNCHANGED << serverVars, _query_cache, request, query_hash, future, result,
                  wire, socket >>
(***************************************************************************)
(* Specifications.                                                         *)
(***************************************************************************)
\* what chain.invoke(query) may return in the concurrent specification: the
\* generator answers the question "a" in two ways, every other question in one
ChainOutputs(query) ==
  IF NormalizeQuery(query) = <<"a">> THEN RawOutputs ELSE { <<"r">>, <<" ">> }

\* the concurrent specification keeps no history, and the server has no GUI
NoHistory == UNCHANGED << recency, prev, gui, since_change, call >>

\* the server with NumWorkers concurrent workers and a thread that clears the cache
Next ==
  \/ (\E preloaded, vector_store, raised \in BOOLEAN : LoadModels(preloaded, vector_store, raised)) /\ NoHistory
  \/ (\E w \in Workers, req \in Requests : Accept(w, req)) /\ NoHistory
  \/ (\E w \in Workers : Receive(w)) /\ NoHistory
  \/ (\E w \in Workers : AskQuestion(w)) /\ NoHistory
  \/ (\E w \in Workers : CacheRead(w)) /\ NoHistory
  \/ (\E w \in Workers : \E raw \in ChainOutputs(question[w].s) : ChainReturns(w, raw)) /\ NoHistory
  \/ (\E w \in Workers, e \in ChainExceptions : ChainRaises(w, e)) /\ NoHistory
  \/ (\E w \in Workers : FutureResult(w)) /\ NoHistory
  \/ (\E w \in Workers : FutureException(w)) /\ NoHistory
  \/ (\E w \in Workers : FutureTimeout(w)) /\ NoHistory
  \/ (\E w \in Workers : ExecutorExit(w)) /\ NoHistory
  \/ (\E w \in Workers : CacheStore(w)) /\ NoHistory
  \/ (\E w \in Workers : CacheLen(w)) /\ NoHistory
  \/ (\E w \in Workers : CachePop(w)) /\ NoHistory
  \/ clear_query_cache /\ NoHistory
  \/ (\E w \in Workers, delivered \in BOOLEAN : Respond(w, delivered)) /\ NoHistory
  \/ (\E w \in Workers : Close(w)) /\ NoHistory

Spec == Init /\ [][Next]_vars

\* the single caller of the sequential specification
Caller == CHOOSE w \in Workers : \A v \in Workers : w <= v

\* requests of the sequential specification: objects with a string question
SeqRequests ==
  { [bytes |-> "utf8", json |-> "object", question |-> JsonString(s)] :
      s \in QuestionStrings \ { << >> } }

\* the reference recency order after an access to key
Touch(order, key) == SelectSeq(order, LAMBDA k : k # key) \o << key >>

\* the history of a step of the sequential specification: the recency order
\* of a reference LRU cache, and the call that completed last
History ==
  /\ recency' =
       CASE pc[Caller] = "cache_read" /\ outcome'[Caller] = "hit" ->
              Touch(recency, query_hash[Caller])
         [] pc[Caller] = "cache_store" -> Touch(recency, query_hash[Caller])
         [] OTHER -> SelectSeq(recency, LAMBDA k : k \in CacheKeys(_query_cache'))
  /\ prev' =
       IF pc[Caller] = "responding" /\ asked[Caller]
       THEN [valid |-> TRUE, query |-> question[Caller].s,
             answer |-> response[Caller].answer, outcome |-> outcome[Caller]]
       ELSE IF _query_cache # << >> /\ _query_cache' = << >>
       THEN NoCall
       ELSE prev
  /\ UNCHANGED << gui, since_change, call >>

\* one caller at a time: calls do not overlap, the cache is cleared between calls
SeqNext ==
  \/ (\E preloaded, vector_store, raised \in BOOLEAN : LoadModels(preloaded, vector_store, raised)) /\ History
  \/ (\E req \in SeqRequests : Accept(Caller, req)) /\ History
  \/ Receive(Caller) /\ History
  \/ AskQuestion(Caller) /\ History
  \/ CacheRead(Caller) /\ History
  \/ (\E raw \in RawOutputs : ChainReturns(Caller, raw)) /\ History
  \/ (\E e \in ChainExceptions : ChainRaises(Caller, e)) /\ History
  \/ FutureResult(Caller) /\ History
  \/ FutureException(Caller) /\ History
  \/ FutureTimeout(Caller) /\ History
  \/ ExecutorExit(Caller) /\ History
  \/ CacheStore(Caller) /\ History
  \/ CacheLen(Caller) /\ History
  \/ CachePop(Caller) /\ History
  \/ Free(Caller) /\ clear_query_cache /\ History
  \/ (\E delivered \in BOOLEAN : Respond(Caller, delivered)) /\ History
  \/ Close(Caller) /\ History

SeqSpec == Init /\ [][SeqNext]_vars

\* the caller's own steps in the sequential specification
CallerStep ==
  \/ Receive(Caller) /\ History
  \/ AskQuestion(Caller) /\ History
  \/ CacheRead(Caller) /\ History
  \/ FutureResult(Caller) /\ History
  \/ FutureException(Caller) /\ History
  \/ FutureTimeout(Caller) /\ History
  \/ ExecutorExit(Caller) /\ History
  \/ CacheStore(Caller) /\ History
  \/ CacheLen(Caller) /\ History
  \/ CachePop(Caller) /\ History
  \/ (\E delivered \in BOOLEAN : Respond(Caller, delivered)) /\ History
  \/ Close(Caller) /\ History

\* the worker thread is scheduled and the timeout of future.result elapses;
\* nothing makes chain.invoke return
FairSpec == SeqSpec /\ WF_vars(CallerStep)


(***************************************************************************)
(* One caller asking questions of a generator that returns in time, for    *)
(* the claims about what becomes of the generated text.                    *)
(***************************************************************************)
RECURSIVE Repeat(_, _, _)
\* n copies of text, joined by sep
Repeat(text, sep, n) == IF n <= 1 THEN text ELSE text \o sep \o Repeat(text, sep, n - 1)

A_SENTENCE == <<"A","n","s","w","e","r",":"," ","P","a","r","i","s",".">>

A_LONG_SENTENCE == <<"T","h","e"," ","c","a","p","i","t","a","l"," ","o","f"," ","F","r","a","n","c","e"," ","i","s"," ","t","h","e"," ","c","i","t","y"," ","o","f"," ","P","a","r","i","s"," ","t","o","d","a","y",".">>

A_PHRASE == <<"a"," ","b"," ","c"," ","d"," ","e">>

\* one sentence three times: a text shorter than MIN_REPETITION_LENGTH and a
\* longer one
RepeatedSentences ==
  { Repeat(sentence, <<" ">>, 3) : sentence \in { A_SENTENCE, A_LONG_SENTENCE } }

\* how a generated text may begin
GenPrefixes == { << >>, <<"x"," ">>, <<"x","\n","U","s","e","r",":"," ">> }

\* its middle: a hedge phrase as listed, one in another letter case, or none
GenPhrases == { <<"a","s"," ","a","n"," ","a","i">>, <<"A","s"," ","A","n"," ","A","I">>, <<"t","y","p","i","c","a","l","l","y",",">>, <<"o","k">> }

\* how it may end
GenSuffixes == { << >>, <<" ","y">>, <<"\n","C","o","n","t","e","x","t",":"," ","z">> }

\* texts chain.invoke may return in this specification
GeneratedTexts ==
  { p \o m \o s : p \in GenPrefixes, m \in GenPhrases, s \in GenSuffixes }
    \cup RepeatedSentences

\* the requests of this specification: two questions
GenRequests ==
  { [bytes |-> "utf8", json |-> "object", question |-> JsonString(q)] :
      q \in { <<"a">>, <<"b">> } }

GenNext ==
  \/ (\E preloaded, vector_store, raised \in BOOLEAN : LoadModels(preloaded, vector_store, raised)) /\ NoHistory
  \/ (\E req \in GenRequests : Accept(Caller, req)) /\ NoHistory
  \/ Receive(Caller) /\ NoHistory
  \/ AskQuestion(Caller) /\ NoHistory
  \/ CacheRead(Caller) /\ NoHistory
  \/ (\E raw \in GeneratedTexts : ChainReturns(Caller, raw)) /\ NoHistory
  \/ FutureResult(Caller) /\ NoHistory
  \/ CacheStore(Caller) /\ NoHistory
  \/ CacheLen(Caller) /\ NoHistory
  \/ Free(Caller) /\ clear_query_cache /\ NoHistory
  \/ (\E delivered \in BOOLEAN : Respond(Caller, delivered)) /\ NoHistory
  \/ Close(Caller) /\ NoHistory

GenSpec == Init /\ [][GenNext]_vars

(***************************************************************************)
(* handle_client as a function: one connection after the other, every kind *)
(* of request, in every state of the module.                               *)
(***************************************************************************)
HandlerNext ==
  \/ (\E preloaded, vector_store, raised \in BOOLEAN : LoadModels(preloaded, vector_store, raised)) /\ NoHistory
  \/ (\E req \in Requests : Handle(Caller, req)) /\ NoHistory
  \/ Receive(Caller) /\ NoHistory
  \/ AskQuestion(Caller) /\ NoHistory
  \/ CacheRead(Caller) /\ NoHistory
  \/ (\E raw \in ChainOutputs(question[Caller].s) : ChainReturns(Caller, raw)) /\ NoHistory
  \/ (\E e \in ChainExceptions : ChainRaises(Caller, e)) /\ NoHistory
  \/ FutureResult(Caller) /\ NoHistory
  \/ FutureException(Caller) /\ NoHistory
  \/ FutureTimeout(Caller) /\ NoHistory
  \/ ExecutorExit(Caller) /\ NoHistory
  \/ CacheStore(Caller) /\ NoHistory
  \/ CacheLen(Caller) /\ NoHistory
  \/ CachePop(Caller) /\ NoHistory
  \/ Free(Caller) /\ clear_query_cache /\ NoHistory
  \/ (\E delivered \in BOOLEAN : Respond(Caller, delivered)) /\ NoHistory
  \/ Close(Caller) /\ NoHistory

HandlerSpec == Init /\ [][HandlerNext]_vars

(***************************************************************************)
(* The GUI: processing steps, document changes and questions from the chat.*)
(***************************************************************************)
\* the processing steps whose thread has been started and has not ended
RunningSteps ==
  { step \in Steps :
      CASE step = "chunking"   -> gui.chunking # "idle"
        [] step = "embeddings" -> gui.embeddings # "idle"
        [] OTHER               -> gui.thread # "idle" }

\* a step of the GUI that neither changes the documents nor starts or ends
\* a processing step
NoRecord == UNCHANGED << recency, prev, since_change, call >>

\* the documents change: no step is redone yet, the running ones are stale
Changed ==
  /\ since_change' = [redone |-> { }, stale |-> RunningSteps]
  /\ UNCHANGED << recency, prev, call >>

\* a thread of the step is started, or ends without completing it
Started(step) ==
  /\ since_change' = [since_change EXCEPT !.stale = @ \ { step }]
  /\ UNCHANGED << recency, prev, call >>

\* the step completes: it is redone unless it was started before the change
Completed(step) ==
  /\ since_change' =
       [redone |-> IF step \in since_change.stale THEN since_change.redone
                   ELSE since_change.redone \cup { step },
        stale  |-> since_change.stale \ { step }]
  /\ UNCHANGED << recency, prev, call >>

GuiNext ==
  \/ GuiDoChunking /\ Started("chunking")
  \/ GuiChunkText /\ NoRecord
  \/ GuiChunkingComplete /\ Completed("chunking")
  \/ GuiDoEmbeddings /\ Started("embeddings")
  \/ GuiEmbeddingsReady /\ NoRecord
  \/ GuiEmbeddingsComplete /\ Completed("embeddings")
  \/ GuiDoVectorDb /\ Started("vectordb")
  \/ GuiCreateVectorStore /\ NoRecord
  \/ GuiCreateChain /\ NoRecord
  \/ GuiClearCache /\ NoRecord
  \/ GuiVectordbComplete /\ Completed("vectordb")
  \/ (\E step \in Steps : GuiStepFails(step) /\ Started(step))
  \/ GuiResetProcessingSteps /\ Changed
  \/ (\E q \in GuiQuestions, path \in AskPaths : GuiAsk(Caller, q, path)) /\ NoRecord
  \/ AskQuestion(Caller) /\ NoHistory
  \/ CacheRead(Caller) /\ NoHistory
  \/ ChainReturns(Caller, KbAnswer(gui.qa_chain)) /\ NoHistory
  \/ (\E e \in ChainExceptions : ChainRaises(Caller, e)) /\ NoHistory
  \/ FutureResult(Caller) /\ NoHistory
  \/ FutureException(Caller) /\ NoHistory
  \/ FutureTimeout(Caller) /\ NoHistory
  \/ ExecutorExit(Caller) /\ NoHistory
  \/ CacheStore(Caller) /\ NoHistory
  \/ CacheLen(Caller) /\ NoHistory
  \/ CachePop(Caller) /\ NoHistory
  \/ GuiDisplayAnswer(Caller) /\ NoRecord

GuiSpec == Init /\ [][GuiNext]_vars

(***************************************************************************)
(* The functions of the sanitizer called on their own, on any text.        *)
(***************************************************************************)
\* every variable but call
programVars == << main, rag_chain, is_ready, _query_cache, pc, request, question,
                  query_hash, future, result, response, wire, socket, asked, invoked,
                  outcome, recency, prev, gui, since_change >>

\* how a text with or without a leaked prompt may begin
LeakPrefixes == { << >>, <<"x">>, <<" ","x">> }

\* its middle: a leak marker after a newline, one after blank lines, one in
\* lower case, a label that no newline precedes, or nothing
LeakMarkers ==
  { << >>, <<"\n","U","s","e","r",":">>, <<"\n"," ","\n","C","o","n","t","e","x","t",":">>,
    <<"\n","q","u","e","s","t","i","o","n",":">>, <<"U","s","e","r",":">> }

\* how it may end
LeakSuffixes == { << >>, <<" ","y">>, <<"\n","R","u","l","e","s",":"," ","z">>, <<" ">> }

\* texts in which something repeats: a short sentence three times, a long
\* one three times, a five-word phrase five times (a text shorter than
\* MIN_REPETITION_LENGTH) and eleven times, at the start of the text and after
\* three other words
RepetitiveTexts ==
  RepeatedSentences \cup
  { Repeat(A_PHRASE, <<" ">>, 5),
    Repeat(A_PHRASE, <<" ">>, 11),
    <<"x"," ","y"," ","z"," ">> \o Repeat(A_PHRASE, <<" ">>, 11) }

\* the texts the functions are called on
SanitizerInputs ==
  { p \o m \o s : p \in LeakPrefixes, m \in LeakMarkers, s \in LeakSuffixes }
    \cup RepetitiveTexts

\* _clean_response(response), lines 210-231
CallCleanResponse(text) ==
  /\ call' = [function |-> "_clean_response", argument |-> text,
              value |-> _clean_response(text)]
  /\ UNCHANGED programVars

\* _detect_repetition(response), lines 170-208
CallDetectRepetition(text) ==
  /\ call' = [function |-> "_detect_repetition", argument |-> text,
              value |-> _detect_repetition(text)]
  /\ UNCHANGED programVars

\* _validate_context_response(response), lines 233-263
CallValidateContextResponse(text) ==
  /\ call' = [function |-> "_validate_context_response", argument |-> text,
              value |-> _validate_context_response(text)]
  /\ UNCHANGED programVars

SanitizerNext ==
  \/ \E text \in SanitizerInputs : CallCleanResponse(text)
  \/ \E text \in SanitizerInputs : CallDetectRepetition(text)
  \/ \E text \in SanitizerInputs : CallValidateContextResponse(text)

SanitizerSpec == Init /\ [][SanitizerNext]_vars

(***************************************************************************)
(* _format_docs called on its own, on any list of retrieved documents.     *)
(***************************************************************************)
\* the most documents in a list
MaxDocs == 3

\* page contents: two that agree in their first FINGERPRINT_WIDTH characters,
\* two that differ there in blank characters only, one with a run of blanks
\* inside, a blank one
PageContents ==
  { <<"a","b","c">>, <<"a","b","c","d">>, <<"a","b">>, <<"a","b"," ","e">>,
    <<"x"," "," ","y","\n">>, <<" ">> }

RECURSIVE Lists(_, _)
\* the lists of at most n members of S
Lists(S, n) ==
  IF n = 0 THEN { << >> }
  ELSE LET shorter == Lists(S, n - 1)
       IN  shorter \cup { Append(list, member) : list \in shorter, member \in S }

\* _format_docs(docs), lines 74-110
CallFormatDocs(docs) ==
  /\ call' = [function |-> "_format_docs", argument |-> docs, value |-> _format_docs(docs)]
  /\ UNCHANGED programVars

FormatNext == \E docs \in Lists(PageContents, MaxDocs) : CallFormatDocs(docs)

FormatSpec == Init /\ [][FormatNext]_vars
(***************************************************************************)
(* Claims.                                                                 *)
(***************************************************************************)
\* C1: when the timeout elapses before chain.invoke has completed,
\* ask_question returns the sentinel at that point, without waiting for the
\* abandoned call: a worker that has timed out can always leave the with
\* block and return.
C1_TimeoutReturnsWithoutWaiting ==
  \A w \in Workers : pc[w] = "executor_exit" => ENABLED ExecutorExit(w)

\* C2: every request that reaches Dispatching is eventually answered and its
\* connection closed, even when the generator call made for it never returns.
C2_DispatchedEventuallyClosed ==
  (pc[Caller] = "dispatching") ~> (pc[Caller] = "closed")

\* C3: in every reachable state the cache holds at most CACHE_SIZE entries.
C3_CacheWithinCapacity == Len(_query_cache) <= CACHE_SIZE


\* C4: when a store fills the cache beyond its capacity, the entry evicted
\* is the least recently accessed one (a cache hit counts as an access), as
\* in a reference LRU cache: the entry about to be popped is the head of the
\* reference recency order.
C4_EvictsLeastRecentlyAccessed ==
  (pc[Caller] = "cache_pop" /\ _query_cache # << >>)
    => Head(_query_cache).key = Head(recency)

\* the previous call left an answer for its question in the cache, or was
\* turned away before the cache
PrevSettled ==
  \/ prev.outcome \in {"hit", "invalid", "not_initialized"}
  \/ prev.outcome = "answered" /\ prev.answer # << >>

\* the caller's ask_question call has returned and follows a completed call
SecondCallReturned ==
  /\ pc[Caller] = "responding"
  /\ asked[Caller]
  /\ prev.valid

\* C5 as stated: two successive ask_question(Q) calls with no cache clear
\* between them return the same answer, and the second does not invoke the
\* chain, whatever the outcome of the first call was.
C5_SecondCallSameAnswerAlways ==
  (SecondCallReturned /\ prev.query = question[Caller].s)
    => (response[Caller].answer = prev.answer /\ ~invoked[Caller])

\* C5 amended: two successive ask_question(Q) calls with no cache clear and
\* no other call between them return the same answer, and the second does
\* not invoke the chain, when the first call stored a non-empty answer, was
\* a cache hit, or was rejected before the cache.
C5_SecondCallSameAnswerWhenSettled ==
  (SecondCallReturned /\ prev.query = question[Caller].s /\ PrevSettled)
    => (response[Caller].answer = prev.answer /\ ~invoked[Caller])

\* a second call for the question of a call that stored its answer
C5_Witness ==
  /\ SecondCallReturned
  /\ prev.query = question[Caller].s
  /\ prev.outcome = "answered"
  /\ prev.answer # << >>
  /\ outcome[Caller] = "hit"
  /\ response[Caller].answer = prev.answer

\* two characters that are the same letter in either case, or the same character
SameLetter(c, d) ==
  \/ c = d
  \/ \E i \in 1..Len(UpperCase) : {c, d} = {UpperCase[i], LowerCase[i]}

\* s is t surrounded by whitespace only
Padded(s, t) ==
  \E i \in 1..(Len(s) + 1) :
    /\ i + Len(t) - 1 <= Len(s)
    /\ SubSeq(s, i, i + Len(t) - 1) = t
    /\ \A j \in (1..(i - 1)) \cup ((i + Len(t))..Len(s)) : IsSpace(s[j])

\* the inner texts of p, with no whitespace at either end
Cores(p) ==
  { t \in { SubSeq(p, i, j) : i \in 1..Len(p), j \in 1..Len(p) } :
      /\ t # << >>
      /\ ~IsSpace(t[1])
      /\ ~IsSpace(t[Len(t)])
      /\ Padded(p, t) }

\* p and q differ only in letter case and in leading/trailing whitespace
DifferOnlyInCaseAndOuterSpace(p, q) ==
  \E s \in Cores(p), t \in Cores(q) :
    /\ Len(s) = Len(t)
    /\ \A i \in 1..Len(s) : SameLetter(s[i], t[i])

\* C6: two questions that differ only in letter case and leading/trailing
\* whitespace have the same fingerprint, and after ask_question stored an
\* answer for one, ask_question on the other returns that answer as a cache
\* hit without invoking the chain.
C6_CaseAndSpaceVariantsHit ==
  ( /\ SecondCallReturned
    /\ prev.outcome = "answered"
    /\ prev.answer # << >>
    /\ DifferOnlyInCaseAndOuterSpace(prev.query, question[Caller].s) )
    => /\ Fingerprint(prev.query) = Fingerprint(question[Caller].s)
       /\ outcome[Caller] = "hit"
       /\ response[Caller].answer = prev.answer
       /\ ~invoked[Caller]

\* a hit on a question written differently from the one that stored the answer
C6_Witness ==
  /\ SecondCallReturned
  /\ prev.outcome = "answered"
  /\ prev.answer # << >>
  /\ prev.query # question[Caller].s
  /\ DifferOnlyInCaseAndOuterSpace(prev.query, question[Caller].s)
  /\ outcome[Caller] = "hit"

\* C7: a cache lookup is atomic with respect to the other workers: between
\* the membership test and the read no store or eviction by another worker
\* removes the key that was found, so the read does not raise.
C7_LookupAtomic ==
  [][ \A w \in Workers :
        ( /\ pc[w] = "cache_read"
          /\ query_hash[w] \in CacheKeys(_query_cache)
          /\ \E v \in Workers \ {w} : pc[v] \in {"cache_store", "cache_pop"} /\ pc'[v] # pc[v] )
        => query_hash[w] \in CacheKeys(_query_cache') ]_vars

\* the next step of worker w's ask_question raises KeyError on the cache
FailsOn(w, cache) ==
  \/ pc[w] = "cache_read" /\ query_hash[w] \notin CacheKeys(cache)
  \/ pc[w] = "cache_pop" /\ cache = << >>

\* C8: clear_query_cache may run at any point while ask_question calls are
\* in flight: no in-flight call fails or returns an error answer because of
\* the clear.
C8_ClearHarmsNoCall ==
  [][ clear_query_cache =>
        \A w \in Workers : FailsOn(w, _query_cache') => FailsOn(w, _query_cache) ]_vars

\* str(e) of the exceptions ask_question can raise or catch
ExceptionTexts ==
  { AttributeError.text, KeyErrorEmpty.text }
    \cup { KeyError(Fingerprint(s)).text : s \in QuestionStrings }

\* C9: no response written to a client contains the text of an internal
\* exception, whatever the JSON type of the question and whatever the
\* interleaving of the workers.
C9_NoExceptionTextInResponse ==
  \A w \in Workers : \A i \in 1..Len(wire[w]) :
    \A e \in ExceptionTexts : ~Contains(wire[w][i].answer, e)

\* the request bytes are undecodable or malformed: not UTF-8, not JSON, JSON
\* that is not an object, or an object without a question field
Malformed(req) ==
  \/ req.bytes = "invalid_utf8"
  \/ req.bytes = "utf8" /\ req.json \in {"invalid", "array", "object_without_question"}

\* C10: on malformed or undecodable request bytes handle_client goes to
\* Responding with a response of status "error", and does not call
\* ask_question.
C10_MalformedGetsErrorResponse ==
  [][ \A w \in Workers :
        (pc[w] = "accepted" /\ Malformed(request[w]) /\ pc'[w] # "accepted")
        => /\ pc'[w] = "responding"
           /\ response'[w].status = "error"
           /\ ~asked'[w] ]_vars

\* a text that is empty or consists of whitespace only
Blank(s) == \A i \in 1..Len(s) : IsSpace(s[i])

\* C11: a request whose question is empty or whitespace-only is rejected by
\* handle_client before any pipeline work: no worker is in Dispatching with
\* such a question.
C11_BlankQuestionNotDispatched ==
  \A w \in Workers :
    (pc[w] = "dispatching" /\ question[w].t = "string") => ~Blank(question[w].s)

\* C12: ask_question with an initialized chain and an empty or
\* whitespace-only question returns the invalid-question message in one
\* step: the chain is not invoked, and the cache is neither read nor changed.
C12_BlankQuestionReturnsAtOnce ==
  [][ \A w \in Workers :
        ( /\ pc[w] = "dispatching"
          /\ pc'[w] # "dispatching"
          /\ rag_chain = "chain"
          /\ question[w].t = "string"
          /\ Blank(question[w].s) )
        => /\ pc'[w] = "responding"
           /\ response'[w] = [status |-> "success", answer |-> INVALID_QUESTION]
           /\ ~invoked'[w]
           /\ future'[w].state = "none"
           /\ query_hash'[w] = << >>
           /\ _query_cache' = _query_cache ]_vars

\* ask_question has returned the invalid-question message for a blank question
C12_Witness ==
  \E w \in Workers :
    /\ pc[w] = "responding"
    /\ asked[w]
    /\ Blank(question[w].s)
    /\ question[w].t = "string"
    /\ response[w].answer = INVALID_QUESTION
    /\ ~invoked[w]

\* text contains one of the hedge phrases, in any letter case
HasHedge(text) ==
  \E n \in 1..Len(generic_indicators) :
    \E i \in 1..Len(text) :
      /\ i + Len(generic_indicators[n]) - 1 <= Len(text)
      /\ \A j \in 1..Len(generic_indicators[n]) :
           SameLetter(text[i + j - 1], generic_indicators[n][j])

\* the caller's future.result delivers the generator's text in this step
ResultDelivered ==
  /\ pc[Caller] = "waiting"
  /\ future[Caller].state = "done"
  /\ pc'[Caller] # "waiting"

\* C13 as stated: for any raw generator output that contains a hedge phrase
\* in any letter case, wherever it occurs and whatever the rest of the text,
\* the answer of ask_question is the fixed sentinel.
C13_HedgeInRawGivesSentinel ==
  [][ (ResultDelivered /\ HasHedge(future[Caller].value))
        => result'[Caller] = NO_INFORMATION ]_vars

\* C13 amended: when the generator's output, after leak stripping and
\* repetition truncation, contains a hedge phrase in any letter case, the
\* answer of ask_question is the fixed sentinel.
C13_HedgeAfterCleaningGivesSentinel ==
  [][ ( /\ ResultDelivered
        /\ HasHedge(_detect_repetition(_clean_response(future[Caller].value))) )
        => (pc'[Caller] = "cache_store" /\ result'[Caller] = NO_INFORMATION) ]_vars

\* ask_question has answered a generated text with the sentinel
C13_Witness ==
  /\ pc[Caller] = "responding"
  /\ outcome[Caller] = "answered"
  /\ invoked[Caller]
  /\ response[Caller].answer = NO_INFORMATION

\* C14: for every connection handed to handle_client the client socket is
\* closed when the worker has finished, on every exit path, and it stays
\* open for as long as the worker handles the connection.
C14_SocketClosedWhenWorkerFinishes ==
  \A w \in Workers :
    /\ pc[w] = "closed" => socket[w] = "closed"
    /\ pc[w] = "idle" => socket[w] = "none"
    /\ pc[w] \notin {"idle", "closed"} => socket[w] = "open"

\* a worker has finished and its socket is closed
C14_Witness == \E w \in Workers : pc[w] = "closed" /\ socket[w] = "closed"

\* worker w fails in this step: an exception during parsing, during
\* dispatch, or in the send
WorkerFails(w) ==
  \/ pc[w] = "accepted" /\ RaisesInParsing(request[w]) /\ pc'[w] # "accepted"
  \/ pc[w] # "responding" /\ pc'[w] = "responding" /\ outcome'[w] = "raised"
  \/ pc[w] = "responding" /\ pc'[w] = "closing" /\ wire'[w] = wire[w]

\* the step leaves worker v's connection as it is
Untouched(v) ==
  /\ pc'[v] = pc[v]
  /\ request'[v] = request[v]
  /\ question'[v] = question[v]
  /\ query_hash'[v] = query_hash[v]
  /\ future'[v] = future[v]
  /\ result'[v] = result[v]
  /\ response'[v] = response[v]
  /\ wire'[v] = wire[v]
  /\ socket'[v] = socket[v]

\* C15: an exception in one connection's worker during parsing, dispatch or
\* send is contained in that worker: the accept loop goes on, the shared
\* cache is not changed, and no other in-flight connection is affected.
C15_WorkerFailureContained ==
  [][ \A w \in Workers :
        WorkerFails(w) =>
          /\ main' = main
          /\ is_ready' = is_ready
          /\ rag_chain' = rag_chain
          /\ _query_cache' = _query_cache
          /\ pc'[w] \in {"responding", "closing"}
          /\ \A v \in Workers \ {w} : Untouched(v) ]_vars

\* one worker has failed while another connection has its answer ready
C15_Witness ==
  \E w, v \in Workers :
    /\ w # v
    /\ pc[w] = "responding"
    /\ outcome[w] = "raised"
    /\ pc[v] = "responding"
    /\ response[v].status = "success"
    /\ main = "listening"

\* the request received on worker w's connection is a JSON object with a
\* question field
HasQuestionField(w) == request[w].bytes = "utf8" /\ request[w].json = "object"

\* worker w leaves the send of lines 84-85 in this step
SendEnds(w) == pc[w] = "responding" /\ pc'[w] = "closing"

\* C16 as stated: on every connection on which the request is a JSON object
\* with a question field the server writes exactly one response message, and
\* the socket is closed only after that write.
C16_ExactlyOneResponse ==
  [][ \A w \in Workers :
        (SendEnds(w) /\ HasQuestionField(w)) => Len(wire'[w]) = 1 ]_vars

\* C16 amended: on such a connection the server writes at most one response
\* message, exactly one when sendall does not fail, always to the open
\* socket; the socket is closed only after the send has ended, and nothing
\* is written after the close.
C16_OneResponseUnlessSendFails ==
  [][ \A w \in Workers :
        /\ (SendEnds(w) /\ HasQuestionField(w)) =>
             /\ wire[w] = << >>
             /\ socket[w] = "open"
             /\ socket'[w] = "open"
             /\ wire'[w] \in { << >>, << response[w] >> }
        /\ (HasQuestionField(w) /\ pc'[w] = "closing") => pc[w] \in {"responding", "closing"}
        /\ (wire'[w] # wire[w]) => (SendEnds(w) \/ (pc[w] = "closing" /\ wire'[w] = << >>))
        /\ (socket[w] = "open" /\ socket'[w] # "open") => pc[w] = "closing"
        /\ (socket[w] = "closed") => wire'[w] = << >> ]_vars

\* one response has been written for a question and the socket is still open
C16_Witness ==
  \E w \in Workers :
    /\ pc[w] = "closing"
    /\ Len(wire[w]) = 1
    /\ wire[w][1].status = "success"
    /\ socket[w] = "open"

\* worker w's ask_question call, whose generation has timed out, ends in
\* this step
TimedOutCallEnds(w) == pc[w] = "executor_exit" /\ pc'[w] # "executor_exit"

\* C17: when a generation times out the answer of that call is the fixed
\* sentinel and the result of the abandoned generator call is discarded:
\* also when the generator has completed in the meantime, the call returns
\* the sentinel and stores nothing in the cache.
C17_TimedOutResultDiscarded ==
  [][ \A w \in Workers :
        TimedOutCallEnds(w) =>
          /\ pc'[w] = "responding"
          /\ response'[w] = [status |-> "success", answer |-> NO_INFORMATION]
          /\ _query_cache' = _query_cache
          /\ result'[w] = << >>
          /\ future'[w] = NoFuture ]_vars

\* a call that timed out has returned the sentinel, and the cache holds no
\* answer for its question
C17_Witness ==
  /\ pc[Caller] = "responding"
  /\ outcome[Caller] = "timeout"
  /\ response[Caller].answer = NO_INFORMATION
  /\ Fingerprint(question[Caller].s) \notin CacheKeys(_query_cache)

\* worker w's handle_client is past the is_ready test and in or after its
\* call of ask_question
InAskQuestion(w) ==
  \/ pc[w] \in {"dispatching", "cache_read", "waiting", "executor_exit",
                "cache_store", "cache_len", "cache_pop"}
  \/ asked[w]

\* C18: while is_ready is false a request with a non-empty question is
\* answered with the still-loading error response at once, without a call
\* of ask_question; no worker is in ask_question while is_ready is false.
C18_NotReadyRejected ==
  [][ \A w \in Workers :
        /\ InAskQuestion(w) => is_ready
        /\ ( /\ pc[w] = "accepted"
             /\ pc'[w] # "accepted"
             /\ ~is_ready
             /\ HasQuestionField(w)
             /\ Truthy(request[w].question) )
           => /\ pc'[w] = "responding"
              /\ response'[w] = [status |-> "error", answer |-> STILL_LOADING]
              /\ ~asked'[w]
              /\ ~InAskQuestion(w)' ]_vars

\* a question has been turned away because the models are not loaded
C18_Witness ==
  \E w \in Workers :
    /\ ~is_ready
    /\ pc[w] = "responding"
    /\ response[w] = [status |-> "error", answer |-> STILL_LOADING]
    /\ Truthy(question[w])
    /\ ~asked[w]

\* C19: whenever the GUI has rebuilt the knowledge base (a new vector store
\* and a new chain), the cache is cleared before any further question is
\* processed: an answer ask_question returns, from the cache or from the
\* chain, is an answer of the knowledge base built last, and outside the
\* rebuild the cache holds no answer of an earlier knowledge base.
C19_NoAnswerFromBeforeRebuild ==
  /\ (pc[Caller] = "responding" /\ outcome[Caller] \in {"hit", "answered"})
       => response[Caller].answer = KbAnswer(gui.qa_chain)
  /\ gui.thread # "chain_created"
       => \A i \in 1..Len(_query_cache) : _query_cache[i].value = KbAnswer(gui.qa_chain)

\* after a second rebuild a question asked before it is answered anew
C19_Witness ==
  /\ gui.qa_chain = 2
  /\ pc[Caller] = "responding"
  /\ outcome[Caller] = "answered"
  /\ invoked[Caller]
  /\ response[Caller].answer = KbAnswer(2)

\* worker w executes the store of line 160 in this step
Stores(w) == pc[w] = "cache_store" /\ pc'[w] = "cache_len"

\* C20: storing an answer under a fingerprint that is already in the cache
\* replaces the value and refreshes the entry's recency: the entry becomes
\* the last candidate for eviction.
C20_StoreRefreshesRecency ==
  [][ \A w \in Workers :
        (Stores(w) /\ query_hash[w] \in CacheKeys(_query_cache))
        => /\ _query_cache' # << >>
           /\ _query_cache'[Len(_query_cache')] = [key |-> query_hash[w], value |-> result[w]] ]_vars

\* the entries of cache that are stored under key
EntriesOf(cache, key) == { i \in 1..Len(cache) : cache[i].key = key }

\* workers v and w have both missed the cache for the same question, both
\* have invoked the chain and both calls have returned their answers
BothAnswered(v, w) ==
  /\ v # w
  /\ pc[v] = "responding" /\ pc[w] = "responding"
  /\ outcome[v] = "answered" /\ outcome[w] = "answered"
  /\ invoked[v] /\ invoked[w]
  /\ question[v].t = "string" /\ question[w].t = "string"
  /\ Fingerprint(question[v].s) = Fingerprint(question[w].s)
  /\ response[v].answer # << >> /\ response[w].answer # << >>

\* C21 as stated: when two workers have concurrently missed the cache for
\* the same question and both have finished, the cache holds exactly one
\* entry for that fingerprint, and its value is one of the two answers.
C21_BothFinishedOneEntry ==
  \A v, w \in Workers :
    BothAnswered(v, w) =>
      /\ Cardinality(EntriesOf(_query_cache, Fingerprint(question[v].s))) = 1
      /\ CacheGet(_query_cache, Fingerprint(question[v].s))
           \in { response[v].answer, response[w].answer }

\* C21 amended: the last writer wins. The cache never holds two entries for
\* one fingerprint; a store leaves exactly one entry for its fingerprint,
\* holding the answer stored, and leaves every other entry as it was; the
\* value of an entry changes only by a store under its fingerprint. So after
\* two concurrent misses for one question the entry holds the answer of the
\* store that happened last, until an eviction or clear_query_cache removes it.
C21_LastWriterWins ==
  [][ /\ \A k \in CacheKeys(_query_cache) : Cardinality(EntriesOf(_query_cache, k)) = 1
      /\ \A w \in Workers :
           Stores(w) =>
             /\ Cardinality(EntriesOf(_query_cache', query_hash[w])) = 1
             /\ CacheGet(_query_cache', query_hash[w]) = result[w]
             /\ \A k \in CacheKeys(_query_cache) \ { query_hash[w] } :
                  /\ k \in CacheKeys(_query_cache')
                  /\ CacheGet(_query_cache', k) = CacheGet(_query_cache, k)
      /\ \A k \in CacheKeys(_query_cache) \cap CacheKeys(_query_cache') :
           CacheGet(_query_cache', k) # CacheGet(_query_cache, k)
             => \E w \in Workers :
                  Stores(w) /\ query_hash[w] = k /\ result[w] = CacheGet(_query_cache', k) ]_vars

\* two workers have missed the cache for one question and have stored
\* different answers; the cache holds one entry, with one of them
C21_Witness ==
  \E v, w \in Workers :
    /\ BothAnswered(v, w)
    /\ response[v].answer # response[w].answer
    /\ Cardinality(EntriesOf(_query_cache, Fingerprint(question[v].s))) = 1
    /\ CacheGet(_query_cache, Fingerprint(question[v].s)) = response[w].answer

\* how ask_question ended when it did not produce or serve an answer: the
\* chain is missing (line 126), the question is blank (line 129), the
\* generation timed out (line 151), an exception was caught (line 168)
FailureOutcomes == {"not_initialized", "invalid", "timeout", "error"}

\* C22: handle_client sends status "success" only when ask_question has
\* produced an answer or served one from the cache; when its call of
\* ask_question ended as empty input, chain missing, timeout or internal
\* error, the status of the response is "error".
C22_StatusFollowsOutcome ==
  \A w \in Workers :
    (pc[w] = "responding" /\ asked[w]) =>
      /\ response[w].status = "success" => outcome[w] \in {"hit", "answered"}
      /\ outcome[w] \in FailureOutcomes => response[w].status = "error"

\* the texts ask_question returns without having generated an answer
ErrorMessages == { NOT_INITIALIZED, INVALID_QUESTION, GENERIC_ERROR, EMPTY_QUESTION, STILL_LOADING }

\* the values the cache holds
CacheValues(cache) == { cache[i].value : i \in 1..Len(cache) }

\* C23: every value held in the cache is a non-empty string obtained by leak
\* stripping, then repetition detection, then provenance validation, applied
\* to a generator output that arrived within the timeout without an
\* exception: a worker's result is set only when its future has delivered,
\* to the sanitized text, a value enters the cache only as the result of the
\* storing worker, and the cache holds no unsanitized output, no empty
\* string and no error message; a timed-out or failed call stores nothing.
C23_CacheHoldsSanitizedAnswers ==
  [][ /\ \A w \in Workers :
           /\ (result'[w] # result[w] /\ result'[w] # << >>) =>
                /\ pc[w] = "waiting"
                /\ future[w].state = "done"
                /\ result'[w] = _validate_context_response(_detect_repetition(_clean_response(future[w].value)))
           /\ pc[w] = "cache_store" => result[w] # << >>
           /\ (pc[w] \in {"executor_exit"} \/ (pc[w] = "waiting" /\ future[w].state # "done"))
                => _query_cache' = _query_cache
      /\ \A x \in CacheValues(_query_cache') \ CacheValues(_query_cache) :
           \E w \in Workers : Stores(w) /\ x = result[w]
      /\ \A x \in CacheValues(_query_cache) :
           /\ x # << >>
           /\ x \notin ErrorMessages
           /\ \E raw \in RawOutputs :
                x = _validate_context_response(_detect_repetition(_clean_response(raw))) ]_vars

\* an answer that differs from the generator's output has been stored
C23_Witness ==
  /\ pc[Caller] = "cache_len"
  /\ result[Caller] = <<"q">>
  /\ <<"q">> \in CacheValues(_query_cache)
  /\ <<"q">> \notin RawOutputs

\* worker w's chain.invoke has raised while w was waiting for it, and
\* future.result re-raises the exception in this step
ChainFailureSurfaces(w) ==
  /\ pc[w] = "waiting"
  /\ future[w].state \in {"raised", "raised_timeout"}
  /\ pc'[w] # "waiting"

\* C24: if the chain raises any exception during retrieval or generation,
\* ask_question does not raise: it returns the fixed generic error message,
\* and the cache is left exactly as it was.
C24_ChainFailureGivesGenericError ==
  [][ \A w \in Workers :
        ChainFailureSurfaces(w) =>
          /\ pc'[w] = "responding"
          /\ outcome'[w] = "error"
          /\ response'[w] = [status |-> "success", answer |-> GENERIC_ERROR]
          /\ _query_cache' = _query_cache ]_vars

\* the two rejections of an empty question: handle_client's (line 61) and
\* ask_question's (line 129)
EmptyInputRejections == { EMPTY_QUESTION, INVALID_QUESTION }

\* C25: the empty-input check takes precedence over the readiness check: a
\* question that is empty after trimming is answered with the empty-input
\* rejection whether or not the system is ready (is_ready set, chain
\* created), in handle_client and in ask_question.
C25_EmptyInputPrecedesReadiness ==
  \A w \in Workers :
    (pc[w] = "responding" /\ question[w].t = "string" /\ Strip(question[w].s) = << >>)
      => response[w].answer \in EmptyInputRejections

\* some worker thread of the server is alive
SomeWorkerRuns == \E w \in Workers : ~Free(w)

\* C26: is_ready is written at most once, from false to true, by
\* start_server when the dependencies have loaded and the chain exists,
\* before the accept loop is entered and before any worker runs; it is never
\* set back to false, so it is true whenever the server listens or a worker
\* runs.
C26_ReadySetOnceAtStartup ==
  [][ /\ is_ready' # is_ready =>
           /\ ~is_ready /\ is_ready'
           /\ main = "loading" /\ main' = "listening"
           /\ rag_chain' = "chain"
           /\ ~SomeWorkerRuns
      /\ is_ready => is_ready'
      /\ (main = "listening" \/ SomeWorkerRuns) => (is_ready /\ is_ready') ]_vars

\* the flag is set and a worker is waiting for the generator
C26_Witness ==
  /\ is_ready
  /\ main = "listening"
  /\ pc[Caller] = "waiting"

\* C27: the server accepts connections only after start-up has succeeded:
\* the accept loop is entered only from loading, with rag_chain created and
\* is_ready set; a failed start-up returns without listening and no worker
\* ever runs after it; a connection is accepted only while listening; hence
\* every worker finds is_ready true and rag_chain set, and none is answered
\* that the system is loading or the chatbot not initialized.
C27_ListensOnlyAfterStartup ==
  [][ /\ (main' = "listening" /\ main # "listening") =>
           (main = "loading" /\ rag_chain' = "chain" /\ is_ready')
      /\ main = "returned" =>
           (main' = "returned" /\ ~is_ready /\ rag_chain = "None" /\ ~SomeWorkerRuns /\ ~SomeWorkerRuns')
      /\ (main = "listening" \/ SomeWorkerRuns) => (is_ready /\ rag_chain = "chain")
      /\ \A w \in Workers :
           /\ (pc'[w] = "accepted" /\ pc[w] # "accepted") => main = "listening"
           /\ outcome'[w] # "not_initialized"
           /\ response'[w].answer \notin { STILL_LOADING, NOT_INITIALIZED } ]_vars

\* a worker of the listening server calls ask_question with the chain set
C27_Witness ==
  \E w \in Workers :
    /\ main = "listening"
    /\ pc[w] = "waiting"
    /\ asked[w]
    /\ is_ready
    /\ rag_chain = "chain"

\* the GUI hands a question to a query thread in this step (_ask_question,
\* line 951), which passes it to ask_question (line 972)
QuestionPassed == pc[Caller] # "dispatching" /\ pc'[Caller] = "dispatching"

\* C28: in the server GUI, after documents were uploaded or removed, no
\* question is passed to ask_question until chunking, embedding preparation
\* and vector-DB creation have each been started and completed again after
\* that change, for any interleaving of the change with a processing thread
\* that is still running, from the Ask button and from the Return key.
C28_NoQuestionBeforeReprocessing ==
  [][ QuestionPassed => since_change.redone = Steps ]_vars

\* the background operations of the GUI that are running: the processing
\* steps and the query
RunningOperations ==
  RunningSteps \cup (IF Free(Caller) THEN { } ELSE { "query" })

\* C29: in the server GUI at most one background operation among chunking,
\* embedding preparation, vector-DB creation and query processing is
\* running at any time: one is started only when is_processing is false,
\* and is_processing is true for as long as one is running.
C29_OneBackgroundOperation ==
  [][ /\ Cardinality(RunningOperations) <= 1
      /\ RunningOperations # { } => gui.is_processing
      /\ (RunningOperations' \ RunningOperations) # { } =>
           /\ ~gui.is_processing
           /\ RunningOperations = { }
           /\ gui'.is_processing ]_vars

\* a query is running alone after the knowledge base was built, and the
\* flag is set
C29_Witness ==
  /\ RunningOperations = { "query" }
  /\ pc[Caller] = "waiting"
  /\ gui.is_processing
  /\ gui.session_steps_completed = Steps

\* the entry under key is in the cache before this step and is gone, or
\* holds another value, after it
EntryLost(key) ==
  /\ key \in CacheKeys(_query_cache)
  /\ \/ key \notin CacheKeys(_query_cache')
     \/ CacheGet(_query_cache', key) # CacheGet(_query_cache, key)

\* worker w's call evicts the oldest entry in this step (line 162)
Evicts(w) ==
  /\ pc[w] = "cache_pop"
  /\ pc'[w] # "cache_pop"
  /\ _query_cache # << >>
  /\ _query_cache' = Tail(_query_cache)

\* clear_query_cache runs in this step
Clears == _query_cache # << >> /\ _query_cache' = << >> /\ pc' = pc

\* C30: an entry leaves the cache only through the capacity eviction of a
\* store, which removes the oldest entry, or through clear_query_cache, and
\* its value changes only by a store under its fingerprint; no step of a
\* cache hit, of a timeout, of an empty result or of an error, and no lapse
\* of time, removes an entry or changes its value.
C30_EntriesLeaveByEvictionOrClear ==
  [][ /\ \A key \in CacheKeys(_query_cache) :
           EntryLost(key) =>
             \/ Clears
             \/ \E w \in Workers : Evicts(w) /\ key = Head(_query_cache).key
             \/ \E w \in Workers :
                  /\ Stores(w) /\ key = query_hash[w]
                  /\ key \in CacheKeys(_query_cache')
                  /\ CacheGet(_query_cache', key) = result[w]
      /\ \A w \in Workers :
           ( /\ pc'[w] # pc[w]
             /\ pc[w] \in {"dispatching", "cache_read", "waiting", "executor_exit", "cache_len"} )
           => _query_cache' = _query_cache ]_vars

\* a question has been served from the full cache, and the cache is as full
\* as before
C30_Witness ==
  /\ pc[Caller] = "responding"
  /\ outcome[Caller] = "hit"
  /\ Len(_query_cache) = CACHE_SIZE
  /\ response[Caller].answer \in CacheValues(_query_cache)

(***************************************************************************)
(* Leak stripping.                                                         *)
(***************************************************************************)
\* some leak pattern matches in text starting at position i
LeakAt(text, i) ==
  \E n \in 1..Len(leak_patterns) : LeakMatchAt(text, leak_patterns[n], i)

ContainsLeak(text) == \E i \in 1..Len(text) : LeakAt(text, i)

\* where the earliest match of any leak pattern starts
FirstLeak(text) ==
  CHOOSE i \in 1..Len(text) : LeakAt(text, i) /\ \A j \in 1..(i-1) : ~LeakAt(text, j)

\* C31: _clean_response returns a text that contains a leak marker cut at the
\* start of the earliest match and trimmed, and returns a text that contains
\* no leak marker unchanged.
C31_CutAtFirstLeakElseUnchanged ==
  call.function = "_clean_response" =>
    IF ContainsLeak(call.argument)
    THEN call.value = Strip(SubSeq(call.argument, 1, FirstLeak(call.argument) - 1))
    ELSE call.value = call.argument

(***************************************************************************)
(* Repetition detection.                                                   *)
(***************************************************************************)
\* response.lower().split()
Tokens(text) == SplitWords(Lower(text))

\* the windows the phrase check counts: range(len(words) - 5)
Windows(words) == 0..(Len(words) - PHRASE_WIDTH - 1)

\* the phrase check is reached and finds a phrase counted more than twice
PhraseRepeats(text) ==
  /\ ~Exempt(text)
  /\ ~SentenceRepetition(SplitOn(text, "."))
  /\ Len(Tokens(text)) > MIN_PHRASE_WORDS
  /\ \E i \in Windows(Tokens(text)) : PhraseCount(Tokens(text), i) > PHRASE_THRESHOLD

\* the window at which the count of the phrase of window i first exceeds the
\* threshold: the one that PHRASE_THRESHOLD windows of the same phrase precede
ExceedsAt(words, i) ==
  CHOOSE j \in Windows(words) :
    /\ PhraseAt(words, j) = PhraseAt(words, i)
    /\ Cardinality({ k \in 0..(j-1) : PhraseAt(words, k) = PhraseAt(words, i) }) = PHRASE_THRESHOLD

\* the words of a returned text, without the full stop the function appends
ReturnedTokens(value) ==
  SplitWords(IF value # << >> /\ value[Len(value)] = "." THEN SubSeq(value, 1, Len(value) - 1)
             ELSE value)

\* C32: when the phrase check finds a phrase counted more than twice,
\* _detect_repetition returns the tokens of the response up to the position at
\* which the count of that phrase first exceeds two (any token of the window
\* that brings the count to three) and nothing beyond it.
C32_CutWhereCountFirstExceedsTwo ==
  (call.function = "_detect_repetition" /\ PhraseRepeats(call.argument)) =>
    LET words == Tokens(call.argument)
    IN  \E i \in Windows(words) :
          /\ PhraseCount(words, i) > PHRASE_THRESHOLD
          /\ \E n \in ExceedsAt(words, i)..(ExceedsAt(words, i) + PHRASE_WIDTH) :
                ReturnedTokens(call.value) = Prefix(words, n)

\* how many times sentence occurs in text
Occurrences(text, sentence) ==
  Cardinality({ i \in 1..Len(text) : OccursAt(text, sentence, i) })

\* every text the caller holds as the answer: the one about to be stored, the
\* cached ones, the one in the response
HeldAnswers ==
  { result[Caller], response[Caller].answer } \cup CacheValues(_query_cache)

\* no answer held, cached or returned has sentence three times, and an answer
\* taken from the cache is returned without a call of the chain
TruncatedEndToEnd(sentence) ==
  /\ \A text \in HeldAnswers : Occurrences(text, sentence) < 3
  /\ outcome[Caller] = "hit" => ~invoked[Caller]

C34_ShortResponsesUnchanged ==
  (call.function = "_detect_repetition" /\ Len(call.argument) < MIN_REPETITION_LENGTH) =>
    call.value = call.argument

\* a short response that repeats a sentence, or one that repeats a phrase,
\* came back as it was
C34_Witness ==
  /\ call.function = "_detect_repetition"
  /\ call.argument \in { Repeat(A_SENTENCE, <<" ">>, 3), Repeat(A_PHRASE, <<" ">>, 5) }
  /\ Len(call.argument) < MIN_REPETITION_LENGTH
  /\ SentenceRepetition(SplitOn(call.argument, ".")) \/ Len(Tokens(call.argument)) > MIN_PHRASE_WORDS
  /\ call.value = call.argument

(***************************************************************************)
(* Context assembly.                                                       *)
(***************************************************************************)
\* two fragments with the same first FINGERPRINT_WIDTH characters
SameStart(a, b) == Prefix(a, FINGERPRINT_WIDTH) = Prefix(b, FINGERPRINT_WIDTH)

\* two fragments whose first FINGERPRINT_WIDTH characters are the same once
\* the blank characters at both ends of them are removed
SameTrimmedStart(a, b) ==
  Strip(Prefix(a, FINGERPRINT_WIDTH)) = Strip(Prefix(b, FINGERPRINT_WIDTH))

RECURSIVE Ascending(_)
\* the members of a set of numbers, smallest first
Ascending(S) ==
  IF S = { } THEN << >>
  ELSE LET least == CHOOSE x \in S : \A y \in S : x <= y
       IN  << least >> \o Ascending(S \ { least })

\* the ranks of the fragments that no earlier fragment duplicates
Kept(docs, Duplicates(_, _)) ==
  { i \in 1..Len(docs) : \A j \in 1..(i-1) : ~Duplicates(docs[j], docs[i]) }

\* the context made of the kept fragments, in rank order
ContextOfKept(docs, Duplicates(_, _)) ==
  LET ranks == Ascending(Kept(docs, Duplicates))
  IN  Join(<<"\n", "\n">>, [n \in 1..Len(ranks) |-> FormattedDoc(docs[ranks[n]])])

\* for a non-empty list whose kept fragments fit the maximum length, the
\* context holds the kept fragments, all of them, in rank order, and no other
DeduplicatedBy(Duplicates(_, _)) ==
  (/\ call.function = "_format_docs"
   /\ call.argument # << >>
   /\ Len(ContextOfKept(call.argument, Duplicates)) <= MAX_CONTEXT_LENGTH) =>
    call.value = ContextOfKept(call.argument, Duplicates)

\* C35 (as stated): of two fragments whose first 200 characters are identical
\* only the earlier one appears in the context of _format_docs, and the
\* fragments that are not such duplicates all appear, in rank order.
C35_SameStartDeduplicated == DeduplicatedBy(SameStart)

\* C35 (amended): the same with two fragments being duplicates when their
\* first 200 characters are identical after trimming.
C35_SameTrimmedStartDeduplicated == DeduplicatedBy(SameTrimmedStart)

\* of three fragments the second was dropped as a duplicate of the first, from
\* which it differs, and the third appears after the first
C35_Witness ==
  /\ call.function = "_format_docs"
  /\ Len(call.argument) = 3
  /\ call.argument[1] # call.argument[2]
  /\ Kept(call.argument, SameTrimmedStart) = { 1, 3 }
  /\ call.value = FormattedDoc(call.argument[1]) \o <<"\n", "\n">> \o FormattedDoc(call.argument[3])

\* the text _format_docs joins from the fragments it keeps
JoinedText(docs) == ContextOfKept(docs, SameTrimmedStart)

\* C36: when the joined text is longer than MAX_CONTEXT_LENGTH, _format_docs
\* returns exactly its first MAX_CONTEXT_LENGTH characters followed by the
\* whole truncation marker; otherwise it returns the joined text, with no
\* marker. The result, and so the offset of the cut, is fixed by the fragment
\* list and the maximum length.
C36_CutAtMaxLengthWithMarker ==
  (call.function = "_format_docs" /\ call.argument # << >>) =>
    LET joined == JoinedText(call.argument)
    IN  IF Len(joined) > MAX_CONTEXT_LENGTH
        THEN call.value = SubSeq(joined, 1, MAX_CONTEXT_LENGTH) \o TRUNCATION_MARKER
        ELSE call.value = joined /\ ~Contains(call.value, TRUNCATION_MARKER)

\* a context was cut inside its last fragment and ends with the marker
C36_Witness ==
  /\ call.function = "_format_docs"
  /\ Len(JoinedText(call.argument)) > MAX_CONTEXT_LENGTH + 1
  /\ Len(call.value) = MAX_CONTEXT_LENGTH + Len(TRUNCATION_MARKER)
  /\ OccursAt(call.value, TRUNCATION_MARKER, MAX_CONTEXT_LENGTH + 1)
  /\ call.value[MAX_CONTEXT_LENGTH] \notin { " ", "\n" }

\* C37: the context _format_docs returns is never the empty string: it is the
\* placeholder "No relevant documents found." for an empty list and a
\* non-empty text for every other list.
C37_ContextNeverEmpty ==
  call.function = "_format_docs" =>
    /\ call.value # << >>
    /\ call.argument = << >> =>
         call.value = <<"N","o"," ","r","e","l","e","v","a","n","t"," ","d","o","c","u","m","e",
                        "n","t","s"," ","f","o","u","n","d",".">>

\* a list of blank fragments gave a context that is not empty
C37_Witness ==
  /\ call.function = "_format_docs"
  /\ call.argument # << >>
  /\ \A i \in 1..Len(call.argument) : Strip(call.argument[i]) = << >>
  /\ call.value = <<"-", " ">>
====
